---- MODULE Spec2Model ----
(***************************************************************************)
(* AutoLens: the trace model (TraceModel.cpp) and the engine facade        *)
(* (AppController.cpp) with its drivers, as state machines.                *)
(*                                                                         *)
(* Conventions.                                                            *)
(*  - Rows are numbered from 1 here (the source numbers them from 0); a    *)
(*    row index stored in m_inPlaceRows is the source's value plus one.    *)
(*  - MAX_ROWS and PURGE_CHUNK keep their names and their roles but are    *)
(*    scaled down (source: 100000 and 5000); PURGE_CHUNK < MAX_ROWS as in  *)
(*    the source.  Every formula below is stated in terms of the names.    *)
(*  - A frame's timestamp is its publication number: the n-th frame made   *)
(*    carries timestamp n, counted from the clock of its maker (0 for the  *)
(*    Vector driver and a direct caller, DemoClock for the simulator,      *)
(*    ImportBase for a file).                                              *)
(***************************************************************************)
EXTENDS Integers, Sequences, FiniteSets, TLC

\* ---------------------------------------------------------------- bounds
MaxArrivals == 5
MaxBatch == 4

\* ------------------------------------------------------ program constants
MAX_ROWS == 3
PURGE_CHUNK == 2

Min(a, b) == IF a < b THEN a ELSE b
Max(a, b) == IF a > b THEN a ELSE b

\* ---------------------------------------------------------------- frames
\* CANMessage: the fields the trace model and the engine read.
CANMessage(id, channel, ext, fd, remote, error, tx, ts) ==
    [id |-> id, channel |-> channel, isExtended |-> ext, isFD |-> fd,
     isRemote |-> remote, isError |-> error, isTxConfirm |-> tx,
     timestamp |-> ts]

\* The frame shapes the inputs are drawn from: a base frame and variants
\* that differ from it in one field of the fingerprint each.
FrameKinds ==
    { CANMessage(1, 1, FALSE, FALSE, FALSE, FALSE, FALSE, 0),
      CANMessage(2, 1, FALSE, FALSE, FALSE, FALSE, FALSE, 0),
      CANMessage(1, 2, FALSE, FALSE, FALSE, FALSE, FALSE, 0),
      CANMessage(1, 1, TRUE,  FALSE, FALSE, FALSE, FALSE, 0),
      CANMessage(1, 1, FALSE, FALSE, FALSE, FALSE, TRUE,  0) }

Stamp(kind, ts) == [kind EXCEPT !.timestamp = ts]

\* The batch made of the given kinds, stamped from+1, from+2, ...
StampBatch(kinds, from) == [i \in 1..Len(kinds) |-> Stamp(kinds[i], from + i)]

\* ------------------------------------------------------------ TraceModel
VARIABLES
    m_frames,        \* QVector<TraceEntry>: the root rows
    m_displayMode,   \* "Append" | "InPlace"
    m_inPlaceRows,   \* QHash<quint64,int>: key -> row
    notif,           \* root-level notifications of the last model call
                     \* of the step
    nextSeq,         \* frames made so far
    hist             \* history of the model since it was last empty:
                     \*   epochMode: the mode of every insertion since
                     \*              ("Append", "InPlace" or "Mixed")
                     \*   tracked:   the fields below are kept: the model
                     \*              is driven directly, at most
                     \*              MAX_ROWS + 1 frames arrived in Append,
                     \*              fewer than MAX_ROWS fingerprints in
                     \*              In-place
                     \*   arrived:   frames passed to addEntries since
                     \*   firstTs:   timestamp of the first of them
                     \*   prevRows:  rows held before the last batch
                     \*   seen:      In-place: fingerprint -> [first, last]

traceVars == <<m_frames, m_displayMode, m_inPlaceRows, notif, hist>>

\* makeEntryKey: the 64-bit key is an OR of disjoint bit fields (id in bits
\* 0..31, channel & 0xFF in 32..39, one flag bit each in 40..44), written
\* here as the tuple of those fields.
makeEntryKeyNoTx(msg) ==
    <<msg.id, msg.channel % 256, msg.isExtended, msg.isRemote, msg.isError,
      msg.isFD, FALSE>>

makeEntryKey(msg) ==
    <<msg.id, msg.channel % 256, msg.isExtended, msg.isRemote, msg.isError,
      msg.isFD, msg.isTxConfirm>>

NoRows == [k \in {} |-> 0]

NoNotif == [removes |-> 0, inserts |-> 0, resets |-> 0]

\* The model as a value, for the operators below.
Model(frames, mode, rows, nt, h) ==
    [frames |-> frames, mode |-> mode, rows |-> rows, notif |-> nt,
     hist |-> h]

\* rebuildInPlaceIndex: rows ascending, a later insert overwrites.
rebuildInPlaceIndex(frames, mode) ==
    IF mode # "InPlace" THEN NoRows
    ELSE [k \in {makeEntryKey(frames[i]) : i \in 1..Len(frames)} |->
            CHOOSE r \in 1..Len(frames) :
                /\ makeEntryKey(frames[r]) = k
                /\ \A s \in 1..Len(frames) :
                       makeEntryKey(frames[s]) = k => s <= r]

\* purgeOldestRows without the rebuild of the index.
purgeOldestRowsKeepIndex(m, count) ==
    IF count <= 0 \/ m.frames = <<>> THEN m
    ELSE LET c == Min(count, Len(m.frames))
         IN  [m EXCEPT !.frames = SubSeq(m.frames, c + 1, Len(m.frames)),
                       !.notif.removes = @ + 1]

purgeOldestRows(m, count) ==
    IF count <= 0 \/ m.frames = <<>> THEN m
    ELSE LET c == Min(count, Len(m.frames))
             rest == SubSeq(m.frames, c + 1, Len(m.frames))
         IN  [m EXCEPT !.frames = rest,
                       !.notif.removes = @ + 1,
                       !.rows = IF m.mode = "InPlace"
                                THEN rebuildInPlaceIndex(rest, m.mode)
                                ELSE @]

\* updateInPlaceRow: root level only (child rows are not modelled here).
updateInPlaceRow(m, row, entry) ==
    IF row < 1 \/ row > Len(m.frames) THEN m
    ELSE [m EXCEPT !.frames[row] = entry]

\* addEntriesAppend evicting only the excess over MAX_ROWS, never a chunk.
addEntriesAppendExcessOnly(m, entries) ==
    IF entries = <<>> THEN m
    ELSE LET incoming == Len(entries)
             current == Len(m.frames)
             purged ==
                 IF current + incoming > MAX_ROWS
                 THEN purgeOldestRows(m,
                        Min(current + incoming - MAX_ROWS, current))
                 ELSE m
         IN  [purged EXCEPT !.frames = @ \o entries,
                            !.notif.inserts = @ + 1]

addEntriesAppend(m, entries) ==
    IF entries = <<>> THEN m
    ELSE LET incoming == Len(entries)
             current == Len(m.frames)
             purged ==
                 IF current + incoming > MAX_ROWS
                 THEN purgeOldestRows(m,
                        Min(Max(current + incoming - MAX_ROWS, PURGE_CHUNK),
                            current))
                 ELSE m
         IN  [purged EXCEPT !.frames = @ \o entries,
                            !.notif.inserts = @ + 1]

\* One iteration of addEntriesInPlace's loop.
addOneInPlace(m, entry) ==
    LET key == makeEntryKey(entry)
        hit == key \in DOMAIN m.rows
        valid == hit /\ m.rows[key] >= 1 /\ m.rows[key] <= Len(m.frames)
    IN  IF valid THEN updateInPlaceRow(m, m.rows[key], entry)
        ELSE LET healed == IF hit
                           THEN [m EXCEPT !.rows =
                                   [k \in DOMAIN m.rows \ {key} |-> m.rows[k]]]
                           ELSE m
                 purged == IF Len(healed.frames) >= MAX_ROWS
                           THEN purgeOldestRows(healed,
                                  Min(PURGE_CHUNK, Len(healed.frames)))
                           ELSE healed
                 row == Len(purged.frames) + 1
             IN  [purged EXCEPT
                    !.frames = Append(@, entry),
                    !.notif.inserts = @ + 1,
                    !.rows = [k \in DOMAIN purged.rows \cup {key} |->
                                IF k = key THEN row ELSE purged.rows[k]]]

RECURSIVE addEntriesInPlace(_, _)
addEntriesInPlace(m, entries) ==
    IF entries = <<>> THEN m
    ELSE addEntriesInPlace(addOneInPlace(m, Head(entries)), Tail(entries))

\* addEntries: dispatch on the display mode.  The notification record is
\* that of this call.
addEntries(m, entries) ==
    LET fresh == [m EXCEPT !.notif = NoNotif]
    IN  IF m.mode = "InPlace" THEN addEntriesInPlace(fresh, entries)
        ELSE addEntriesAppend(fresh, entries)

\* The compaction loop of setDisplayMode: one row per key, at the position
\* of the key's first frame, holding its last frame.
\* compactFrames that keeps the first frame of a key instead of the last.
RECURSIVE compactFramesKeepFirst(_, _, _)
compactFramesKeepFirst(frames, compact, keyToRow) ==
    IF frames = <<>> THEN [frames |-> compact, rows |-> keyToRow]
    ELSE LET frame == Head(frames)
             key == makeEntryKey(frame)
         IN  IF key \notin DOMAIN keyToRow
             THEN compactFramesKeepFirst(Tail(frames), Append(compact, frame),
                    [k \in DOMAIN keyToRow \cup {key} |->
                        IF k = key THEN Len(compact) + 1 ELSE keyToRow[k]])
             ELSE compactFramesKeepFirst(Tail(frames), compact, keyToRow)

RECURSIVE compactFrames(_, _, _)
compactFrames(frames, compact, keyToRow) ==
    IF frames = <<>> THEN [frames |-> compact, rows |-> keyToRow]
    ELSE LET frame == Head(frames)
             key == makeEntryKey(frame)
         IN  IF key \notin DOMAIN keyToRow
             THEN compactFrames(Tail(frames), Append(compact, frame),
                    [k \in DOMAIN keyToRow \cup {key} |->
                        IF k = key THEN Len(compact) + 1 ELSE keyToRow[k]])
             ELSE compactFrames(Tail(frames),
                    [compact EXCEPT ![keyToRow[key]] = frame], keyToRow)

setDisplayMode(m, mode) ==
    IF m.mode = mode THEN [m EXCEPT !.notif = NoNotif]
    ELSE IF mode = "Append" \/ m.frames = <<>>
    THEN [m EXCEPT !.mode = mode, !.rows = NoRows, !.notif = NoNotif]
    ELSE LET c == compactFrames(m.frames, <<>>, NoRows)
         IN  [m EXCEPT !.mode = mode, !.frames = c.frames, !.rows = c.rows,
                       !.notif = [NoNotif EXCEPT !.resets = 1]]

clear(m) ==
    IF m.frames = <<>> /\ DOMAIN m.rows = {} THEN [m EXCEPT !.notif = NoNotif]
    ELSE [m EXCEPT !.frames = <<>>, !.rows = NoRows,
                   !.notif = [NoNotif EXCEPT !.resets = 1]]

\* ------------------------------------------------------------- history
\* The fingerprint of the specification: (id, channel, extended, fd,
\* remote, error, tx-echo).
Fingerprint(msg) ==
    <<msg.id, msg.channel, msg.isExtended, msg.isFD, msg.isRemote,
      msg.isError, msg.isTxConfirm>>

\* seen after the arrivals of a batch: a new fingerprint takes the next
\* position in order of first arrival; every arrival is the last so far.
RECURSIVE SeenAfter(_, _)
SeenAfter(s, entries) ==
    IF entries = <<>> THEN s
    ELSE LET fp == Fingerprint(Head(entries))
             ts == Head(entries).timestamp
             s1 == [f \in DOMAIN s \cup {fp} |->
                      IF f = fp
                      THEN [first |-> IF fp \in DOMAIN s THEN s[fp].first
                                      ELSE Cardinality(DOMAIN s) + 1,
                            last |-> ts]
                      ELSE s[f]]
         IN  SeenAfter(s1, Tail(entries))

NoSeen == [f \in {} |-> [first |-> 0, last |-> 0]]

FreshHist(mode) ==
    [epochMode |-> mode, tracked |-> TRUE, arrived |-> 0, firstTs |-> 0,
     prevRows |-> 0, seen |-> NoSeen]

Untracked(mode) == [FreshHist(mode) EXCEPT !.tracked = FALSE]

\* The three public operations of the model, with the history kept.
AddEntriesH(m, entries) ==
    LET r == addEntries(m, entries)
        h == m.hist
        n == h.arrived + Len(entries)
        sn == SeenAfter(h.seen, entries)
    IN  IF entries = <<>> \/ ~h.tracked THEN r
        ELSE IF h.epochMode = "Append"
        THEN IF n > MAX_ROWS + 1
             THEN [r EXCEPT !.hist = Untracked("Append")]
             ELSE [r EXCEPT !.hist.arrived = n,
                            !.hist.firstTs = IF h.arrived = 0
                                             THEN entries[1].timestamp
                                             ELSE @,
                            !.hist.prevRows = Len(m.frames)]
        ELSE IF Cardinality(DOMAIN sn) >= MAX_ROWS
        THEN [r EXCEPT !.hist = Untracked("InPlace")]
        ELSE [r EXCEPT !.hist.arrived = n, !.hist.seen = sn]

SetDisplayModeH(m, mode) ==
    LET r == setDisplayMode(m, mode)
    IN  IF r.frames = <<>> THEN [r EXCEPT !.hist = FreshHist(r.mode)]
        ELSE IF r.mode # m.mode THEN [r EXCEPT !.hist = Untracked("Mixed")]
        ELSE r

ClearH(m) ==
    LET r == clear(m)
    IN  [r EXCEPT !.hist = FreshHist(r.mode)]

\* ------------------------------------------------- engine: more bounds
MaxPublish == 2
MaxQueue == 2
MaxImport == 1
MaxInitThreads == 1
\* The start-up specification: init threads and DBC workers it may start.
MaxStartupThreads == 2
MaxDbcWorkers == 2
MaxFrames == 2
MaxByteCount == 64
MaxDlc == 15
MaxItems == 2
MaxMuxRaw == 7
ImportBase == 100
DemoClock == 50

\* ------------------------------------------------------ AppController
VARIABLES
    m_connected, m_measuring, m_paused,
    m_inPlaceDisplayMode,
    m_pending,              \* QVector<CANMessage>
    m_framesSinceLastSec,
    flushTimerActive,       \* m_flushTimer.isActive()
    rateTimerActive,        \* m_rateTimer.isActive()
    portCheckTimerActive,   \* m_portCheckTimer.isActive()
    m_initComplete,
    m_portChecking,
    portWorker,             \* the AutoLens_PortRefresh thread is running
    autoStartArmed,         \* the singleShot(3000, startMeasurement) timer
    m_driver,               \* class of the current driver: "Vector" | "Demo"
    m_driverOpen,           \* VectorCANDriver::m_driverOpen
    m_portHandle,           \* VectorCANDriver: m_portHandle is valid
    m_asyncRunning,         \* VectorCANDriver::m_asyncRunning
    m_open,                 \* DemoCANDriver::m_open of the current simulator
    m_channelInfos,         \* number of entries of m_channelInfos
    m_initThread,           \* 0 = nullptr, else the init thread it points at
    initThreads,            \* the init threads made by refreshChannels
    eventQueue,             \* queued cross-thread calls to the engine thread
    hwPresent,              \* the adapter is plugged in
    dbcWorkers,             \* AutoLens_DbcLoad threads that are running
    dbcLoaded,              \* the start-up parse results are stored in
                            \* m_channelDbs and merged into m_dbcDb
    started,                \* history: the DBC workers and the init
                            \* workers startInitSequence has started
    errorOccurred,          \* emissions of AppController::errorOccurred for
                            \* a hardware error made by the last step
    last                    \* history: the handler that made this state

\* The trace files: a list of frames is exported and read back.
VARIABLES
    codecStep,       \* "idle" | "input" | "saved" | "loaded"
    exportFrames,    \* the QVector<TraceEntry> given to the exporter (msg)
    traceFile,       \* the file written: its suffix and its content
    importResult     \* what TraceImporter::load returned: the error
                     \* string and outMessages

codecVars == <<codecStep, exportFrames, traceFile, importResult>>

\* A function of the program called on its own: the call and what it
\* returned.
VARIABLES
    call,            \* [fn, arg]: the function and its argument
    result,          \* [done, value]: whether it returned, and the value
    recipe           \* how a trace file not written by the exporter was
                     \* put together: its format, header fields and items

auxVars == <<call, result, recipe>>

\* The channel slots of the CAN Config dialog and the decode database merged
\* from them (AppController.h: m_channelConfigs, m_channelDbs, m_dbcDb).
VARIABLES
    m_channelConfigs,   \* per slot: [enabled, dbcFilePath]
    m_channelDbs,       \* per slot: the database parsed for the slot
    m_dbcDb,            \* the merged decode database
    boundSlot           \* the slot whose settings the last successful
                        \* connect took, 0 when it fell back to defaults

channelVars == <<m_channelConfigs, m_channelDbs, m_dbcDb, boundSlot>>

\* The logger across the sessions of the application (Logger.h), and the
\* crash marker file it keeps on disk.
VARIABLES
    markerExists,       \* the crash marker file is on disk
    m_installed,        \* Logger::m_installed of the running process
    sessionPc,          \* "off", "installed" (main has called install),
                        \* "running" (main has made its check)
    sessions,           \* sessions started so far
    sessionEnds,        \* how each finished session ended: "shutdown",
                        \* "fatal" or "crash"
    headerReported,     \* openLogFile wrote its previous-crash line
    mainReported,       \* main logged "Previous session crashed!"
    m_messageCount      \* messages routed through the handler

logVars ==
    <<markerExists, m_installed, sessionPc, sessions, sessionEnds,
      headerReported, mainReported, m_messageCount>>

\* The receive thread of the Vector driver (VectorCANDriver.h: m_rxThread;
\* its running flag is m_asyncRunning).
VARIABLES
    m_rxThread,         \* where the thread is: "none", "top", "receive",
                        \* "emit", "exited"
    stopPc,             \* stopAsyncReceive: "idle", or "waiting" in
                        \* m_rxThread->wait
    waitsAfterStop,     \* receive calls that returned since the flag was
                        \* last cleared
    publishedAfterStop  \* frames emitted since the flag was last cleared

rxVars == <<m_rxThread, stopPc, waitsAfterStop, publishedAfterStop>>

otherVars == <<channelVars, logVars, rxVars>>

engineVars ==
    <<m_connected, m_measuring, m_paused, m_inPlaceDisplayMode, m_pending,
      m_framesSinceLastSec, flushTimerActive, rateTimerActive,
      portCheckTimerActive, m_initComplete, m_portChecking, portWorker,
      autoStartArmed, m_driver, m_driverOpen, m_portHandle, m_asyncRunning,
      m_open, m_channelInfos, m_initThread, initThreads, eventQueue,
      hwPresent, dbcWorkers, dbcLoaded, started, errorOccurred, last>>

vars == <<traceVars, nextSeq, engineVars, codecVars, auxVars, otherVars>>

\* The bus traffic and the imported files: data frames on channel 1 that
\* alternate between two identifiers; the n-th has timestamp n.
BusFrame(n) ==
    CANMessage(1 + (n % 2), 1, FALSE, FALSE, FALSE, FALSE, FALSE, n)

\* The simulator stamps its frames with its own clock (m_elapsed), the
\* Vector driver with the adapter's: timestamps from DemoClock on are the
\* simulator's, those from ImportBase on are read from a file.
DemoFrame(n) == BusFrame(DemoClock + n)

NoMsg == CANMessage(0, 0, FALSE, FALSE, FALSE, FALSE, FALSE, 0)

\* A queued call: type is "frame" (messageReceived), "error"
\* (errorOccurred), "initResult" (the init thread's posted lambda),
\* "finished" (QThread::finished of an init thread), "portList" (the port
\* refresh thread's posted lambda) or "dbcResult" (the DBC worker's posted
\* lambda).
Event(type, msg, t, ok, n, fatal) ==
    [type |-> type, msg |-> msg, t |-> t, ok |-> ok, n |-> n, fatal |-> fatal]

ThreadIds == 1..MaxStartupThreads

NoThread == [pc |-> "none", cancelled |-> FALSE, wd |-> FALSE,
             drv |-> "Demo"]

\* A thread object after deleteLater: nothing reads its fields again.
DoneThread == [NoThread EXCEPT !.pc = "finished"]

NoLast == [op |-> "none", open |-> FALSE]

Current == Model(m_frames, m_displayMode, m_inPlaceRows, notif, hist)

\* The whole state as a value: the handlers below are functions of it.
State ==
    [connected |-> m_connected, measuring |-> m_measuring,
     paused |-> m_paused, inPlace |-> m_inPlaceDisplayMode,
     pending |-> m_pending, fsls |-> m_framesSinceLastSec,
     flushTimer |-> flushTimerActive, rateTimer |-> rateTimerActive,
     portTimer |-> portCheckTimerActive, initComplete |-> m_initComplete,
     portChecking |-> m_portChecking, portWorker |-> portWorker,
     autoStart |-> autoStartArmed, driver |-> m_driver,
     driverOpen |-> m_driverOpen, portHandle |-> m_portHandle,
     async |-> m_asyncRunning, demoOpen |-> m_open,
     channelInfos |-> m_channelInfos, initThread |-> m_initThread,
     threads |-> initThreads, queue |-> eventQueue, hw |-> hwPresent,
     tm |-> [Current EXCEPT !.notif = NoNotif], nextSeq |-> nextSeq,
     dbcWorkers |-> dbcWorkers, dbcLoaded |-> dbcLoaded,
     started |-> started, errorOccurred |-> 0, last |-> last]

CommitEngine(e) ==
    /\ m_connected' = e.connected
    /\ m_measuring' = e.measuring
    /\ m_paused' = e.paused
    /\ m_inPlaceDisplayMode' = e.inPlace
    /\ m_pending' = e.pending
    /\ m_framesSinceLastSec' = e.fsls
    /\ flushTimerActive' = e.flushTimer
    /\ rateTimerActive' = e.rateTimer
    /\ portCheckTimerActive' = e.portTimer
    /\ m_initComplete' = e.initComplete
    /\ m_portChecking' = e.portChecking
    /\ portWorker' = e.portWorker
    /\ autoStartArmed' = e.autoStart
    /\ m_driver' = e.driver
    /\ m_driverOpen' = e.driverOpen
    /\ m_portHandle' = e.portHandle
    /\ m_asyncRunning' = e.async
    /\ m_open' = e.demoOpen
    /\ m_channelInfos' = e.channelInfos
    /\ m_initThread' = e.initThread
    /\ initThreads' = e.threads
    /\ eventQueue' = e.queue
    /\ hwPresent' = e.hw
    /\ m_frames' = e.tm.frames
    /\ m_displayMode' = e.tm.mode
    /\ m_inPlaceRows' = e.tm.rows
    /\ notif' = e.tm.notif
    /\ hist' = Untracked(e.tm.hist.epochMode)
    /\ nextSeq' = e.nextSeq
    /\ dbcWorkers' = e.dbcWorkers
    /\ dbcLoaded' = e.dbcLoaded
    /\ started' = e.started
    /\ errorOccurred' = e.errorOccurred
    /\ last' = e.last

Commit(e) ==
    /\ CommitEngine(e)
    /\ UNCHANGED <<codecVars, auxVars, otherVars>>

\* ICANDriver::isOpen of the current driver.
isOpen(e) == IF e.driver = "Vector" THEN e.portHandle ELSE e.demoOpen

\* ---- VectorCANDriver / DemoCANDriver
stopAsyncReceive(e) ==
    IF ~e.async THEN e ELSE [e EXCEPT !.async = FALSE]

startAsyncReceive(e) ==
    IF e.async THEN e
    ELSE IF ~e.portHandle THEN e
    ELSE [e EXCEPT !.async = TRUE]

\* closeChannel of the current driver.
closeChannel(e) ==
    IF e.driver = "Vector"
    THEN LET s == stopAsyncReceive(e)
         IN  IF ~s.portHandle THEN s ELSE [s EXCEPT !.portHandle = FALSE]
    ELSE IF ~e.demoOpen THEN e ELSE [e EXCEPT !.demoOpen = FALSE]

\* initialize of the current driver, called on the engine thread;
\* libOk: the vendor library loads and xlOpenDriver succeeds.
initialize(e, libOk) ==
    IF e.driver = "Demo" THEN [e |-> e, ok |-> TRUE]
    ELSE IF e.driverOpen THEN [e |-> e, ok |-> TRUE]
    ELSE IF libOk THEN [e |-> [e EXCEPT !.driverOpen = TRUE], ok |-> TRUE]
    ELSE [e |-> e, ok |-> FALSE]

\* detectChannels of the driver of class drv: the number of channels.
detectChannels(e, drv) ==
    IF drv = "Demo" THEN 1
    ELSE IF ~e.driverOpen THEN 0
    ELSE IF e.hw THEN 1 ELSE 0

\* openChannel of the current driver; xlOpenPort succeeds when the adapter
\* is present.
openChannel(e) ==
    IF e.driver = "Demo"
    THEN IF e.demoOpen THEN [e |-> e, ok |-> FALSE]
         ELSE [e |-> [e EXCEPT !.demoOpen = TRUE], ok |-> TRUE]
    ELSE IF ~e.driverOpen THEN [e |-> e, ok |-> FALSE]
    ELSE IF e.portHandle THEN [e |-> e, ok |-> FALSE]
    ELSE IF ~e.hw THEN [e |-> e, ok |-> FALSE]
    ELSE [e |-> [e EXCEPT !.portHandle = TRUE], ok |-> TRUE]

\* ---- AppController handlers
buildEntry(msg) == msg

buildEntries(batch) == [i \in 1..Len(batch) |-> buildEntry(batch[i])]

onFrameReceivedNoGate(e, msg) ==
    IF e.paused THEN e
    ELSE IF msg.isTxConfirm THEN e
    ELSE [e EXCEPT !.pending = Append(@, msg), !.fsls = @ + 1]

onFrameReceivedPrepend(e, msg) ==
    IF ~e.measuring \/ e.paused THEN e
    ELSE IF msg.isTxConfirm THEN e
    ELSE [e EXCEPT !.pending = <<msg>> \o @, !.fsls = @ + 1]

onFrameReceived(e, msg) ==
    IF ~e.measuring \/ e.paused THEN e
    ELSE IF msg.isTxConfirm THEN e
    ELSE [e EXCEPT !.pending = Append(@, msg), !.fsls = @ + 1]

flushPendingFrames(e) ==
    IF e.pending = <<>> THEN e
    ELSE IF e.paused THEN e
    ELSE [e EXCEPT !.pending = <<>>,
                   !.tm = AddEntriesH(e.tm, buildEntries(e.pending))]

updateFrameRate(e) == [e EXCEPT !.fsls = 0]

stopMeasurementKeepsPaused(e) ==
    IF ~e.measuring THEN e
    ELSE [e EXCEPT !.flushTimer = FALSE, !.rateTimer = FALSE,
                   !.pending = <<>>, !.measuring = FALSE]

\* stopMeasurement that leaves the pending frames where they are.
stopMeasurementKeepsPending(e) ==
    IF ~e.measuring THEN e
    ELSE [e EXCEPT !.flushTimer = FALSE, !.rateTimer = FALSE,
                   !.measuring = FALSE, !.paused = FALSE]

stopMeasurement(e) ==
    IF ~e.measuring THEN e
    ELSE [e EXCEPT !.flushTimer = FALSE, !.rateTimer = FALSE,
                   !.pending = <<>>, !.measuring = FALSE, !.paused = FALSE]

disconnectChannelsNoStop(e) ==
    IF ~e.connected THEN e
    ELSE LET e2 == IF e.driver = "Vector" THEN stopAsyncReceive(e) ELSE e
             e3 == closeChannel(e2)
         IN  [e3 EXCEPT !.connected = FALSE, !.paused = FALSE]

disconnectChannels(e) ==
    IF ~e.connected THEN e
    ELSE LET e1 == IF e.measuring THEN stopMeasurement(e) ELSE e
             e2 == IF e1.driver = "Vector" THEN stopAsyncReceive(e1) ELSE e1
             e3 == closeChannel(e2)
         IN  [e3 EXCEPT !.connected = FALSE, !.paused = FALSE]

\* connectChannels that reports the connection although openChannel failed.
connectChannelsIgnoresOpen(e, libOk) ==
    IF e.connected THEN disconnectChannels(e)
    ELSE LET i == initialize(e, libOk)
         IN  IF ~i.ok THEN i.e
             ELSE LET e1 == IF i.e.channelInfos = 0 /\ i.e.driver = "Demo"
                            THEN [i.e EXCEPT !.channelInfos =
                                     detectChannels(i.e, "Demo")]
                            ELSE i.e
                  IN  IF e1.channelInfos = 0 THEN e1
                      ELSE LET o == openChannel(e1)
                               c == [o.e EXCEPT !.connected = TRUE]
                           IN  IF c.driver = "Vector"
                               THEN startAsyncReceive(c) ELSE c

connectChannels(e, libOk) ==
    IF e.connected THEN disconnectChannels(e)
    ELSE LET i == initialize(e, libOk)
         IN  IF ~i.ok THEN i.e
             ELSE LET e1 == IF i.e.channelInfos = 0 /\ i.e.driver = "Demo"
                            THEN [i.e EXCEPT !.channelInfos =
                                     detectChannels(i.e, "Demo")]
                            ELSE i.e
                  IN  IF e1.channelInfos = 0 THEN e1
                      ELSE LET o == openChannel(e1)
                           IN  IF ~o.ok THEN o.e
                               ELSE LET c == [o.e EXCEPT !.connected = TRUE]
                                    IN  IF c.driver = "Vector"
                                        THEN startAsyncReceive(c) ELSE c

startMeasurement(e, libOk) ==
    IF e.measuring THEN stopMeasurement(e)
    ELSE LET e1 == IF ~e.connected THEN connectChannels(e, libOk) ELSE e
         IN  IF ~e1.connected THEN e1
             ELSE [e1 EXCEPT !.measuring = TRUE, !.paused = FALSE,
                             !.pending = <<>>, !.fsls = 0,
                             !.flushTimer = TRUE, !.rateTimer = TRUE]

pauseMeasurement(e) ==
    IF ~e.measuring THEN e
    ELSE LET e1 == [e EXCEPT !.paused = ~@]
         IN  IF ~e1.paused THEN flushPendingFrames(e1) ELSE e1

setInPlaceDisplayMode(e, enabled) ==
    IF e.inPlace = enabled THEN e
    ELSE [e EXCEPT !.inPlace = enabled,
                   !.tm = SetDisplayModeH(e.tm,
                            IF enabled THEN "InPlace" ELSE "Append")]

clearTrace(e) == [e EXCEPT !.tm = ClearH(e.tm)]

\* The part of importTraceLog after its three failure returns.
\* importFrames that clears the trace also when asked to append.
importFramesAlwaysClear(e, frames, append) ==
    LET e1 == IF e.measuring THEN stopMeasurement(e) ELSE e
        e2 == [e1 EXCEPT !.pending = <<>>, !.fsls = 0]
        e3 == [e2 EXCEPT !.tm = ClearH(e2.tm)]
    IN  [e3 EXCEPT !.tm = AddEntriesH(e3.tm, buildEntries(frames))]

importFrames(e, frames, append) ==
    LET e1 == IF e.measuring THEN stopMeasurement(e) ELSE e
        e2 == [e1 EXCEPT !.pending = <<>>, !.fsls = 0]
        e3 == IF ~append THEN [e2 EXCEPT !.tm = ClearH(e2.tm)] ELSE e2
    IN  [e3 EXCEPT !.tm = AddEntriesH(e3.tm, buildEntries(frames))]

\* importTraceLog with the measurement stopped and the buffers reset
\* before the file is examined.
importTraceLogResetFirst(e, outcome, frames, append) ==
    LET e1 == IF e.measuring THEN stopMeasurement(e) ELSE e
        e2 == [e1 EXCEPT !.pending = <<>>, !.fsls = 0]
    IN  IF outcome # "ok" \/ frames = <<>>
        THEN [e |-> e2, ok |-> FALSE]
        ELSE [e |-> importFrames(e2, frames, append), ok |-> TRUE]

\* importTraceLog: the state after the call and the value returned.
\* outcome is "missing" when the file does not exist, "unsupported" or
\* "codec" when TraceImporter::load returns an error (frames are those it
\* had decoded by then), "ok" when it returns the frames (maybe none).
importTraceLog(e, outcome, frames, append) ==
    IF outcome = "missing" THEN [e |-> e, ok |-> FALSE]
    ELSE IF outcome # "ok" THEN [e |-> e, ok |-> FALSE]
    ELSE IF frames = <<>> THEN [e |-> e, ok |-> FALSE]
    ELSE [e |-> importFrames(e, frames, append), ok |-> TRUE]

applyDriverInitResult(e, ok, n) ==
    IF ~ok THEN e
    ELSE LET e1 == [e EXCEPT !.channelInfos = n]
         IN  IF ~e1.initComplete
             THEN [e1 EXCEPT !.initComplete = TRUE, !.portTimer = TRUE,
                             !.autoStart = TRUE]
             ELSE e1

\* QThread::isRunning of init thread t: it is inside the driver calls
\* ("running") or has posted its result and not yet returned ("posted").
isRunning(e, t) == t # 0 /\ e.threads[t].pc \in {"running", "posted"}

\* checkPortHealth
checkPortHealth(e) ==
    IF e.portChecking THEN e
    ELSE IF ~e.connected
    THEN IF e.driver = "Demo" THEN e
         ELSE IF isRunning(e, e.initThread) THEN e
         ELSE [e EXCEPT !.portChecking = TRUE, !.portWorker = TRUE]
    ELSE IF e.driver = "Vector" /\ ~e.portHandle
    THEN LET e1 == IF e.measuring
                   THEN [e EXCEPT !.flushTimer = FALSE, !.rateTimer = FALSE,
                                  !.pending = <<>>, !.measuring = FALSE,
                                  !.paused = FALSE]
                   ELSE e
         IN  [e1 EXCEPT !.connected = FALSE, !.errorOccurred = @ + 1]
    ELSE e

\* onDriverError without the automatic close: the message is only forwarded.
onDriverErrorForwardOnly(e, fatal) ==
    [e EXCEPT !.errorOccurred = @ + 1]

\* onDriverError; fatal: the message names HW_NOT_PRESENT, HW_NOT_READY or
\* CANNOT_OPEN_DRIVER.  The message is always forwarded to errorOccurred.
onDriverError(e, fatal) ==
    LET e1 == IF e.connected /\ e.driver # "Demo" /\ fatal
              THEN disconnectChannels(e)
              ELSE e
    IN  [e1 EXCEPT !.errorOccurred = @ + 1]

\* The lambda the port refresh thread posts.
applyPortList(e, n) ==
    LET e1 == [e EXCEPT !.portChecking = FALSE]
    IN  IF n # e1.channelInfos THEN [e1 EXCEPT !.channelInfos = n] ELSE e1

\* refreshChannels: a new init thread t with its watchdog.
refreshChannels(e, t) ==
    IF isRunning(e, e.initThread) THEN e
    ELSE [e EXCEPT !.initThread = t,
                   !.threads[t] = [pc |-> "running", cancelled |-> FALSE,
                                   wd |-> TRUE, drv |-> e.driver]]

\* The watchdog of thread t times out.  The driver it abandons is
\* disconnected from the engine and none of its fields is read again; the
\* new driver is a simulator.
watchdogTimeout(e, t) ==
    LET e0 == [e EXCEPT !.threads[t].wd = FALSE]
    IN  IF ~isRunning(e0, e0.initThread) THEN e0
        ELSE LET e1 == [e0 EXCEPT !.threads[t].cancelled = TRUE,
                                  !.initThread = 0,
                                  !.driver = "Demo",
                                  !.driverOpen = FALSE,
                                  !.portHandle = FALSE,
                                  !.async = FALSE,
                                  !.demoOpen = FALSE]
             IN  applyDriverInitResult(e1, TRUE, detectChannels(e1, "Demo"))

\* The two handlers of QThread::finished of init thread t.
initThreadFinished(e, t) ==
    LET e1 == [e EXCEPT !.threads[t] = DoneThread]
    IN  IF e1.initThread # 0 THEN [e1 EXCEPT !.initThread = 0] ELSE e1

\* The init thread object the next QThread::create makes: 0 when the bound
\* on init threads is used up.
FreeThread(e) ==
    IF \E t \in ThreadIds : e.threads[t].pc = "none"
    THEN CHOOSE t \in ThreadIds :
             /\ e.threads[t].pc = "none"
             /\ \A u \in 1..(t - 1) : e.threads[u].pc # "none"
    ELSE 0

\* startInitSequence: the two guards, then the DBC worker is started.
startInitSequence(e) ==
    IF e.initComplete THEN e
    ELSE IF isRunning(e, e.initThread) THEN e
    ELSE [e EXCEPT !.dbcWorkers = @ + 1, !.started.dbc = @ + 1]

\* The lambda the DBC worker posts: the results are stored, the merged
\* DBC is rebuilt, and refreshChannels starts the hardware detection.
applyDbcResults(e) ==
    LET e1 == [e EXCEPT !.dbcLoaded = TRUE]
    IN  IF isRunning(e1, e1.initThread) THEN e1
        ELSE [refreshChannels(e1, FreeThread(e1))
                 EXCEPT !.started.init = @ + 1]

\* The lambda init thread t posts, without its test of the cancelled flag.
initResultLambdaUnchecked(e, t, ok, n) ==
    applyDriverInitResult(e, ok, n)

\* The lambda init thread t posts, run on the engine thread.
initResultLambda(e, t, ok, n) ==
    IF ~e.threads[t].cancelled THEN applyDriverInitResult(e, ok, n) ELSE e

\* The engine thread runs one queued call.
dispatch(e, ev) ==
    CASE ev.type = "frame" -> onFrameReceived(e, ev.msg)
      [] ev.type = "error" -> onDriverError(e, ev.fatal)
      [] ev.type = "initResult" -> initResultLambda(e, ev.t, ev.ok, ev.n)
      [] ev.type = "finished" -> initThreadFinished(e, ev.t)
      [] ev.type = "portList" -> applyPortList(e, ev.n)
      [] ev.type = "dbcResult" -> applyDbcResults(e)

Post(e, ev) == [e EXCEPT !.queue = Append(@, ev)]

\* sendFrame: the simulator echoes the frame as a TX confirmation in the
\* same call; the Vector driver reports a failed xlCanTransmit through
\* makeError, which reaches onDriverError in the same call, and sendFrame
\* then publishes "TX failed".
sendFrame(e, id) ==
    IF ~e.connected THEN e
    ELSE IF e.driver = "Demo"
    THEN onFrameReceived(e, CANMessage(id, 1, FALSE, FALSE, FALSE, FALSE,
                                       TRUE, 0))
    ELSE IF ~e.portHandle THEN e
    ELSE IF e.hw THEN e
    ELSE [onDriverError(e, TRUE) EXCEPT !.errorOccurred = @ + 1]

\* ------------------------------------------------------------- history
\* last marks the state reached by a stop issued while measuring (with
\* the driver's open state it started from), by a disconnect issued while
\* connected, by a frame delivered while connected and not measuring, by a
\* driver error handled while connected through the hardware driver, by
\* the posted result of an init thread whose watchdog had fired, by an
\* import that failed while frames were pending in a measurement, or by a
\* health tick that found the engine connected and the driver not open;
\* any other handler resets it.
Did(op, e) ==
    IF op = "stop" /\ m_measuring
    THEN [e EXCEPT !.last = [op |-> "stop", open |-> isOpen(State)]]
    ELSE IF op = "disconnect" /\ m_connected
    THEN [e EXCEPT !.last = [op |-> "disconnect", open |-> isOpen(State)]]
    ELSE IF op = "frame" /\ m_connected /\ ~m_measuring
    THEN [e EXCEPT !.last = [op |-> "frame", open |-> FALSE]]
    ELSE IF op = "error" /\ m_connected /\ m_driver = "Vector"
    THEN [e EXCEPT !.last = [op |-> "error", open |-> FALSE]]
    ELSE IF op = "initResult" /\ initThreads[Head(eventQueue).t].cancelled
    THEN [e EXCEPT !.last = [op |-> "abandoned", open |-> FALSE]]
    ELSE IF op = "importFailed" /\ m_measuring /\ m_pending # <<>>
    THEN [e EXCEPT !.last = [op |-> "importFailed", open |-> FALSE]]
    ELSE IF op = "health" /\ m_connected /\ ~isOpen(State)
    THEN [e EXCEPT !.last = [op |-> "health", open |-> FALSE]]
    ELSE IF op \in {"connect", "start"} /\ ~m_connected /\ ~m_measuring
                                          /\ ~e.connected
    THEN [e EXCEPT !.last = [op |-> "connectFailed", open |-> FALSE]]
    ELSE [e EXCEPT !.last = NoLast]

\* -------------------------------------------------------- trace files
\* BLF constants of TraceExporter.h.
BLF_OBJ_CAN_MESSAGE == 1
BLF_OBJ_CAN_FD_MESSAGE == 86
BLF_STATS_SIZE == 144
BLF_OBJ_HEADER_SIZE == 24
BLF_CAN_MSG_PAYLOAD == 16
BLF_CANFD_MSG_PAYLOAD == 76
BLF_API_VERSION == 1027

NoFile == [suffix |-> "", bytes |-> <<>>, lines |-> <<>>]
NoResult == [err |-> "", msgs |-> <<>>]

Zeros(n) == [i \in 1..n |-> 0]

\* A CANMessage with its dlc, its 64-byte data array (the given bytes, then
\* zeros) and its BRS flag.
CANFrame(msg, dlc, bytes, brs) ==
    [id |-> msg.id, channel |-> msg.channel, isExtended |-> msg.isExtended,
     isFD |-> msg.isFD, isRemote |-> msg.isRemote, isError |-> msg.isError,
     isTxConfirm |-> msg.isTxConfirm, timestamp |-> msg.timestamp,
     dlc |-> dlc, data |-> bytes \o Zeros(64 - Len(bytes)), isBRS |-> brs]

\* A default-constructed CANMessage.
DefaultFrame ==
    CANFrame(CANMessage(0, 1, FALSE, FALSE, FALSE, FALSE, FALSE, 0), 0,
             <<>>, FALSE)

dlcToLength(dlc) ==
    IF dlc <= 15
    THEN <<0, 1, 2, 3, 4, 5, 6, 7, 8, 12, 16, 20, 24, 32, 48, 64>>[dlc + 1]
    ELSE 64

\* lengthToDlc with one code for every length above 8.
lengthToDlcCoarse(byteCount) == IF byteCount <= 8 THEN byteCount ELSE 15

lengthToDlc(byteCount) ==
    IF byteCount <= 8 THEN byteCount
    ELSE IF byteCount <= 12 THEN 9
    ELSE IF byteCount <= 16 THEN 10
    ELSE IF byteCount <= 20 THEN 11
    ELSE IF byteCount <= 24 THEN 12
    ELSE IF byteCount <= 32 THEN 13
    ELSE IF byteCount <= 48 THEN 14
    ELSE 15

\* CANMessage::dataLength
dataLength(msg) == IF msg.isFD THEN dlcToLength(msg.dlc) ELSE Min(msg.dlc, 8)

\* QDataStream in little-endian order: operator<< of a k-byte unsigned
\* integer, and operator>> of the k bytes at file offset pos.
RECURSIVE LE(_, _)
LE(n, k) == IF k = 0 THEN <<>> ELSE <<n % 256>> \o LE(n \div 256, k - 1)

RECURSIVE FromLE(_)
FromLE(bytes) ==
    IF bytes = <<>> THEN 0 ELSE Head(bytes) + 256 * FromLE(Tail(bytes))

ReadLE(file, pos, k) == FromLE(SubSeq(file, pos + 1, pos + k))

\* QFile::seek(pos) followed by writes over the bytes already there.
Patch(file, pos, bytes) ==
    [i \in 1..Len(file) |->
        IF i > pos /\ i <= pos + Len(bytes) THEN bytes[i - pos] ELSE file[i]]

\* writeSystemTime of the wall clock: Tue 3 Nov 2026 17:00:00.000.
SystemTime ==
    LE(2026, 2) \o LE(11, 2) \o LE(2, 2) \o LE(3, 2) \o LE(17, 2)
    \o LE(0, 2) \o LE(0, 2) \o LE(0, 2)

BlfSignature == <<66, 76, 70, 0>>
LobjSignature == <<76, 79, 66, 74>>

writeBlfObjectHeader(objectType, payloadBytes, ts10ns) ==
    LobjSignature \o LE(BLF_OBJ_HEADER_SIZE, 2) \o LE(1, 2)
    \o LE(BLF_OBJ_HEADER_SIZE + payloadBytes, 4) \o LE(objectType, 4)
    \o LE(ts10ns, 8)

\* The flags byte without the direction bit.
blfFlagsNoTx(msg) ==
    (IF msg.isFD /\ msg.isBRS THEN 1 ELSE 0)
    + (IF msg.isExtended THEN 4 ELSE 0)

\* The flags byte of a record.
blfFlags(msg) ==
    (IF msg.isFD /\ msg.isBRS THEN 1 ELSE 0)
    + (IF msg.isExtended THEN 4 ELSE 0)
    + (IF msg.isTxConfirm THEN 16 ELSE 0)

\* The LOBJ record of one data frame.
blfRecord(msg) ==
    LET ts10ns == msg.timestamp \div 10
        len == dataLength(msg)
    IN  IF msg.isFD
        THEN writeBlfObjectHeader(BLF_OBJ_CAN_FD_MESSAGE,
                                  BLF_CANFD_MSG_PAYLOAD, ts10ns)
             \o LE(msg.id, 4) \o LE(msg.channel, 2) \o LE(msg.dlc, 1)
             \o <<blfFlags(msg)>> \o LE(0, 4)
             \o SubSeq(msg.data, 1, len) \o Zeros(64 - len)
        ELSE writeBlfObjectHeader(BLF_OBJ_CAN_MESSAGE, BLF_CAN_MSG_PAYLOAD,
                                  ts10ns)
             \o LE(msg.id, 4) \o LE(msg.channel, 2) \o LE(msg.dlc, 1)
             \o <<blfFlags(msg)>>
             \o SubSeq(msg.data, 1, len) \o Zeros(8 - len)

\* The frame loop of saveAsBLF: the records, objectCount and lastTs10ns.
RECURSIVE blfFrameLoop(_, _)
blfFrameLoop(frames, acc) ==
    IF frames = <<>> THEN acc
    ELSE LET msg == Head(frames)
         IN  IF msg.isError \/ msg.isRemote
             THEN blfFrameLoop(Tail(frames), acc)
             ELSE blfFrameLoop(Tail(frames),
                      [bytes |-> acc.bytes \o blfRecord(msg),
                       objectCount |-> acc.objectCount + 1,
                       lastTs10ns |-> msg.timestamp \div 10])

\* saveAsBLF without the seek back to offsets 12, 32 and 56.
saveAsBLFUnpatched(frames) ==
    blfFrameLoop(frames,
        [bytes |-> BlfSignature \o LE(BLF_STATS_SIZE, 4)
                   \o LE(BLF_API_VERSION, 4) \o Zeros(28) \o SystemTime
                   \o SystemTime \o Zeros(BLF_STATS_SIZE - 72),
         objectCount |-> 0, lastTs10ns |-> 0]).bytes

\* saveAsBLF: the bytes of the file.  The statistics block is written with
\* placeholders and patched after the frame loop.
saveAsBLF(frames) ==
    LET stats == BlfSignature \o LE(BLF_STATS_SIZE, 4)
                 \o LE(BLF_API_VERSION, 4) \o LE(0, 4) \o LE(0, 4)
                 \o LE(0, 4) \o LE(0, 8) \o LE(0, 8) \o SystemTime
                 \o SystemTime \o Zeros(BLF_STATS_SIZE - 72)
        loop == blfFrameLoop(frames, [bytes |-> stats, objectCount |-> 0,
                                      lastTs10ns |-> 0])
        p1 == Patch(loop.bytes, 12,
                    LE(loop.objectCount, 4) \o LE(loop.objectCount, 4))
        p2 == Patch(p1, 32, LE(loop.lastTs10ns, 8))
    IN  Patch(p2, 56, SystemTime)

\* The object loop of loadBlf from file offset pos.
RECURSIVE blfObjectLoop(_, _, _)
blfObjectLoop(file, pos, msgs) ==
    IF pos + 24 > Len(file) THEN [err |-> "", msgs |-> msgs]
    ELSE IF SubSeq(file, pos + 1, pos + 4) # LobjSignature
    THEN [err |-> "Unexpected BLF object signature", msgs |-> msgs]
    ELSE
    LET headerSize == ReadLE(file, pos + 4, 2)
        objectSize == ReadLE(file, pos + 8, 4)
        objectType == ReadLE(file, pos + 12, 4)
        ts10ns == ReadLE(file, pos + 16, 8)
        objectEnd == pos + objectSize
        at == pos + headerSize
        payloadSize == objectSize - headerSize
        flags == ReadLE(file, at + 7, 1)
        head == [DefaultFrame EXCEPT
                    !.id = ReadLE(file, at, 4) % 536870912,
                    !.channel = Max(1, Min(ReadLE(file, at + 4, 2), 255)),
                    !.isExtended = (flags \div 4) % 2 = 1,
                    !.isTxConfirm = (flags \div 16) % 2 = 1,
                    !.timestamp = ts10ns * 10]
    IN  IF headerSize < 24 \/ objectSize < headerSize
        THEN [err |-> "Invalid BLF object size", msgs |-> msgs]
        ELSE IF objectEnd > Len(file)
        THEN [err |-> "Truncated BLF object", msgs |-> msgs]
        ELSE IF objectType = 1 /\ payloadSize >= 16
        THEN blfObjectLoop(file, objectEnd, Append(msgs,
                 [head EXCEPT
                     !.dlc = Min(ReadLE(file, at + 6, 1), 8),
                     !.data = SubSeq(file, at + 9, at + 16) \o Zeros(56)]))
        ELSE IF objectType = 86 /\ payloadSize >= 76
        THEN blfObjectLoop(file, objectEnd, Append(msgs,
                 [head EXCEPT
                     !.isFD = TRUE,
                     !.dlc = Min(ReadLE(file, at + 6, 1), 15),
                     !.isBRS = flags % 2 = 1,
                     !.data = SubSeq(file, at + 13, at + 76)]))
        ELSE blfObjectLoop(file, objectEnd, msgs)

\* loadBlf
loadBlf(file) ==
    IF Len(file) < 4 \/ SubSeq(file, 1, 4) # BlfSignature
    THEN [err |-> "Invalid BLF header", msgs |-> <<>>]
    ELSE IF Len(file) < 12
    THEN [err |-> "Failed to read BLF header", msgs |-> <<>>]
    ELSE LET statsSize == ReadLE(file, 4, 4)
         IN  IF statsSize < 24 \/ statsSize > Len(file)
             THEN [err |-> "Invalid BLF statistics block size",
                   msgs |-> <<>>]
             ELSE LET r == blfObjectLoop(file, statsSize, <<>>)
                  IN  IF r.err # "" THEN r
                      ELSE IF r.msgs = <<>>
                      THEN [err |-> "No CAN frames found in BLF file",
                            msgs |-> <<>>]
                      ELSE r

\* ASC text.  A character is a one-character string, a token a sequence of
\* characters, a line the sequence of its tokens: what
\* split(QRegularExpression("\\s+"), Qt::SkipEmptyParts) gives for it.
HexChars ==
    <<"0", "1", "2", "3", "4", "5", "6", "7", "8", "9",
      "A", "B", "C", "D", "E", "F">>
UpperChars ==
    <<"A", "B", "C", "D", "E", "F", "G", "H", "I", "J", "K", "L", "M",
      "N", "O", "P", "Q", "R", "S", "T", "U", "V", "W", "X", "Y", "Z">>
LowerChars ==
    <<"a", "b", "c", "d", "e", "f", "g", "h", "i", "j", "k", "l", "m",
      "n", "o", "p", "q", "r", "s", "t", "u", "v", "w", "x", "y", "z">>

ToUpperChar(c) ==
    IF \E i \in 1..26 : LowerChars[i] = c
    THEN UpperChars[CHOOSE i \in 1..26 : LowerChars[i] = c] ELSE c
ToLowerChar(c) ==
    IF \E i \in 1..26 : UpperChars[i] = c
    THEN LowerChars[CHOOSE i \in 1..26 : UpperChars[i] = c] ELSE c
toLower(token) == [i \in 1..Len(token) |-> ToLowerChar(token[i])]
toUpper(token) == [i \in 1..Len(token) |-> ToUpperChar(token[i])]

\* The value of a digit in the base, or -1.
DigitValue(c, base) ==
    LET u == ToUpperChar(c)
    IN  IF \E i \in 1..base : HexChars[i] = u
        THEN (CHOOSE i \in 1..base : HexChars[i] = u) - 1 ELSE -1

\* QString::number(n, base).toUpper()
RECURSIVE Number(_, _)
Number(n, base) ==
    IF n < base THEN <<HexChars[n + 1]>>
    ELSE Number(n \div base, base) \o <<HexChars[(n % base) + 1]>>

\* QString::rightJustified(width, '0')
rightJustified(token, width) ==
    [i \in 1..(width - Len(token)) |-> "0"] \o token

\* toInt / toUInt / toULongLong in the base: the value, or -1 when the
\* token is not a number in that base.
RECURSIVE ParseNumber(_, _, _)
ParseNumber(token, base, acc) ==
    IF token = <<>> THEN acc
    ELSE IF DigitValue(Head(token), base) < 0 THEN -1
    ELSE ParseNumber(Tail(token), base,
                     acc * base + DigitValue(Head(token), base))

toNumber(token, base) ==
    IF token = <<>> THEN -1 ELSE ParseNumber(token, base, 0)

startsWith(token, prefix) ==
    Len(token) >= Len(prefix) /\ SubSeq(token, 1, Len(prefix)) = prefix
endsWith(token, c) == token # <<>> /\ token[Len(token)] = c
chop(token) == SubSeq(token, 1, Len(token) - 1)

\* QString::arg(ts_s, 12, 'f', 6) of ts_s = timestamp / 1.0e9: the decimal
\* text of the seconds with six decimals, the value rounded to the nearest
\* microsecond.
formatSeconds(timestamp) ==
    LET us == (timestamp + 500) \div 1000
    IN  Number(us \div 1000000, 10) \o <<".">>
        \o rightJustified(Number(us % 1000000, 10), 6)

\* qRound64(token.toDouble() * 1.0e9): the nanoseconds, or -1 when the
\* token is not a decimal number.
RECURSIVE Pow10(_)
Pow10(k) == IF k = 0 THEN 1 ELSE 10 * Pow10(k - 1)

parseSeconds(token) ==
    IF \E i \in 1..Len(token) : token[i] = "."
    THEN LET dot == CHOOSE i \in 1..Len(token) : token[i] = "."
             int == toNumber(SubSeq(token, 1, dot - 1), 10)
             frac == SubSeq(token, dot + 1, Len(token))
             f == IF frac = <<>> THEN 0 ELSE toNumber(frac, 10)
         IN  IF int < 0 \/ f < 0 \/ Len(frac) > 9 THEN -1
             ELSE int * 1000000000 + f * Pow10(9 - Len(frac))
    ELSE LET int == toNumber(token, 10)
         IN  IF int < 0 THEN -1 ELSE int * 1000000000

\* The keywords of the format.
TokRx == <<"R", "x">>
TokTx == <<"T", "x">>
TokErrorFrame == <<"E", "r", "r", "o", "r", "F", "r", "a", "m", "e">>
TokCANFD == <<"C", "A", "N", "F", "D">>
TokBRS == <<"B", "R", "S">>

\* The header and the footer saveAsAsc writes.
AscHeader ==
    << <<<<"d", "a", "t", "e">>, <<"T", "u", "e">>, <<"N", "o", "v">>,
         <<"0", "3">>, <<"1", "7", ":", "0", "0", ":", "0", "0", ".", "0",
                         "0", "0">>, <<"p", "m">>,
         <<"2", "0", "2", "6">>>>,
       <<<<"b", "a", "s", "e">>, <<"h", "e", "x">>,
         <<"t", "i", "m", "e", "s", "t", "a", "m", "p", "s">>,
         <<"a", "b", "s", "o", "l", "u", "t", "e">>>>,
       <<<<"n", "o">>, <<"i", "n", "t", "e", "r", "n", "a", "l">>,
         <<"e", "v", "e", "n", "t", "s">>, <<"l", "o", "g", "g", "e", "d">>>>,
       <<<<"/", "/">>, <<"v", "e", "r", "s", "i", "o", "n">>,
         <<"9", ".", "0", ".", "0">>>>,
       <<<<"/", "/">>, <<"A", "p", "p", "l", "i", "c", "a", "t", "i", "o",
                         "n", ":">>, <<"A", "u", "t", "o", "L", "e", "n",
                                       "s">>, <<"v", "1", ".", "0", ".",
                                                "0">>>>,
       <<<<"B", "e", "g", "i", "n">>,
         <<"T", "r", "i", "g", "g", "e", "r", "b", "l", "o", "c", "k">>>> >>

AscFooter ==
    << <<<<"E", "n", "d">>,
         <<"T", "r", "i", "g", "g", "e", "r", "B", "l", "o", "c", "k">>>> >>

\* The data bytes of a frame as two-digit hexadecimal tokens.
dataHex(msg) ==
    [i \in 1..dataLength(msg) |->
        rightJustified(Number(msg.data[i], 16), 2)]

\* The line saveAsAsc writes for one frame.
ascLine(msg) ==
    LET idStr == IF msg.isExtended
                 THEN rightJustified(Number(msg.id, 16), 8) \o <<"x">>
                 ELSE rightJustified(Number(msg.id, 16), 3)
        start == <<formatSeconds(msg.timestamp), Number(msg.channel, 10),
                   idStr, IF msg.isTxConfirm THEN TokTx ELSE TokRx>>
    IN  IF msg.isError THEN start \o <<TokErrorFrame>>
        ELSE IF msg.isRemote
        THEN start \o <<<<"r">>, Number(msg.dlc, 10)>>
        ELSE IF msg.isFD
        THEN start \o <<TokCANFD, Number(msg.dlc, 10)>> \o dataHex(msg)
             \o (IF msg.isBRS THEN <<TokBRS>> ELSE <<>>)
        ELSE start \o <<<<"d">>, Number(msg.dlc, 10)>> \o dataHex(msg)

\* saveAsAsc: the lines of the file.
saveAsAsc(frames) ==
    AscHeader \o [i \in 1..Len(frames) |-> ascLine(frames[i])] \o AscFooter

\* isAscMetadataLine
isAscMetadataLine(line) ==
    LET lower == [i \in 1..Len(line) |-> toLower(line[i])]
    IN  \/ startsWith(line[1], <<"/", "/">>)
        \/ Len(line) >= 2 /\ lower[1] = <<"d", "a", "t", "e">>
        \/ Len(line) >= 2 /\ lower[1] = <<"b", "a", "s", "e">>
        \/ /\ Len(line) >= 3
           /\ lower[1] = <<"n", "o">>
           /\ lower[2] = <<"i", "n", "t", "e", "r", "n", "a", "l">>
           /\ startsWith(lower[3], <<"e", "v", "e", "n", "t", "s">>)
        \/ /\ Len(line) = 2
           /\ lower[1] \in {<<"b", "e", "g", "i", "n">>, <<"e", "n", "d">>}
           /\ lower[2] = <<"t", "r", "i", "g", "g", "e", "r", "b", "l", "o",
                           "c", "k">>
        \/ /\ Len(line) = 3
           /\ lower[1] \in {<<"b", "e", "g", "i", "n">>, <<"e", "n", "d">>}
           /\ lower[2] = <<"t", "r", "i", "g", "g", "e", "r">>
           /\ lower[3] = <<"b", "l", "o", "c", "k">>

\* parseChannelToken: the channel, or the default 1.
parseChannelToken(token) ==
    LET digits == SelectSeq(token, LAMBDA c : DigitValue(c, 10) >= 0)
        channel == toNumber(digits, 10)
    IN  IF channel <= 0 \/ channel > 255 THEN 1 ELSE channel

\* parseCanIdToken without the extended suffix: a token is extended only by
\* the size of its identifier.
parseCanIdTokenNoSuffix(token) ==
    LET t1 == IF endsWith(token, "x") \/ endsWith(token, "X")
              THEN chop(token) ELSE token
        id == toNumber(t1, 16)
    IN  IF id < 0 \/ id > 536870911
        THEN [ok |-> FALSE, id |-> 0, ext |-> FALSE]
        ELSE [ok |-> TRUE, id |-> id, ext |-> id > 2047]

\* parseCanIdToken: ok, the identifier and the extended flag.
parseCanIdToken(token) ==
    LET ext == endsWith(token, "x") \/ endsWith(token, "X")
        t1 == IF ext THEN chop(token) ELSE token
        t2 == IF endsWith(t1, "h") \/ endsWith(t1, "H") THEN chop(t1)
              ELSE t1
        t3 == IF startsWith(toLower(t2), <<"0", "x">>)
              THEN SubSeq(t2, 3, Len(t2)) ELSE t2
        id == toNumber(t3, 16)
    IN  IF token = <<>> \/ id < 0 \/ id > 536870911
        THEN [ok |-> FALSE, id |-> 0, ext |-> FALSE]
        ELSE [ok |-> TRUE, id |-> id, ext |-> ext \/ id > 2047]

\* parseByteToken: the byte, or -1.
parseByteToken(token) ==
    LET t == IF startsWith(toLower(token), <<"0", "x">>)
             THEN SubSeq(token, 3, Len(token)) ELSE token
        value == toNumber(t, 16)
    IN  IF value < 0 \/ value > 255 THEN -1 ELSE value

\* parseDlcToken: the DLC, or -1.
parseDlcToken(token, isFd) ==
    LET dec == toNumber(token, 10)
        value == IF dec >= 0 THEN dec ELSE toNumber(token, 16)
    IN  IF value < 0 THEN -1
        ELSE IF isFd
        THEN IF value <= 15 THEN value ELSE lengthToDlc(value)
        ELSE Max(0, Min(value, 8))

\* The leading tokens of a sequence that parse as bytes.
RECURSIVE ByteRun(_)
ByteRun(tokens) ==
    IF tokens = <<>> \/ parseByteToken(Head(tokens)) < 0 THEN <<>>
    ELSE <<parseByteToken(Head(tokens))>> \o ByteRun(Tail(tokens))

\* One line of loadAsc: the frames it appends (none or one).
ascParseLine(line) ==
    IF line = <<>> \/ isAscMetadataLine(line) \/ Len(line) < 5 THEN <<>>
    ELSE
    LET ns == parseSeconds(line[1])
        id == parseCanIdToken(line[3])
        dirToken == toLower(line[4])
        typeToken == toLower(line[5])
        rest == SubSeq(line, 7, Len(line))
        msg == [DefaultFrame EXCEPT
                   !.id = id.id, !.channel = parseChannelToken(line[2]),
                   !.isExtended = id.ext,
                   !.isTxConfirm = dirToken = <<"t", "x">>,
                   !.timestamp = ns]
    IN  IF ns < 0 \/ ~id.ok THEN <<>>
        ELSE IF dirToken \notin {<<"r", "x">>, <<"t", "x">>} THEN <<>>
        ELSE IF typeToken \in {toLower(TokErrorFrame),
                               <<"e", "r", "r", "o", "r">>}
        THEN <<[msg EXCEPT !.isError = TRUE]>>
        ELSE IF typeToken = <<"r">>
        THEN IF Len(line) < 6 \/ parseDlcToken(line[6], FALSE) < 0 THEN <<>>
             ELSE <<[msg EXCEPT !.isRemote = TRUE,
                                !.dlc = parseDlcToken(line[6], FALSE)]>>
        ELSE IF typeToken \in {toLower(TokCANFD), <<"f", "d">>}
        THEN IF Len(line) < 6 \/ parseDlcToken(line[6], TRUE) < 0 THEN <<>>
             ELSE LET dlc == parseDlcToken(line[6], TRUE)
                      bytes == ByteRun(rest)
                      byteCount == Len(bytes)
                      flags == SubSeq(rest, byteCount + 1, Len(rest))
                  IN  <<[msg EXCEPT
                           !.isFD = TRUE,
                           !.dlc = IF byteCount > 0
                                      /\ byteCount # dlcToLength(dlc)
                                   THEN lengthToDlc(Min(byteCount, 64))
                                   ELSE dlc,
                           !.data = SubSeq(bytes, 1, Min(byteCount, 64))
                                    \o Zeros(64 - Min(byteCount, 64)),
                           !.isBRS = \E i \in 1..Len(flags) :
                                        toUpper(flags[i]) = TokBRS]>>
        ELSE IF typeToken # <<"d">> THEN <<>>
        ELSE IF Len(line) < 6 \/ parseDlcToken(line[6], FALSE) < 0 THEN <<>>
        ELSE LET dlc == parseDlcToken(line[6], FALSE)
                 expected == Min(dlc, 8)
                 run == ByteRun(rest)
                 bytes == SubSeq(run, 1, Min(Len(run), expected))
             IN  <<[msg EXCEPT
                      !.dlc = IF Len(bytes) # expected THEN Len(bytes)
                              ELSE dlc,
                      !.data = bytes \o Zeros(64 - Len(bytes))]>>

\* loadAsc
RECURSIVE ascLineLoop(_)
ascLineLoop(lines) ==
    IF lines = <<>> THEN <<>>
    ELSE ascParseLine(Head(lines)) \o ascLineLoop(Tail(lines))

loadAsc(lines) ==
    LET msgs == ascLineLoop(lines)
    IN  IF msgs = <<>>
        THEN [err |-> "No CAN frames found in ASC file", msgs |-> <<>>]
        ELSE [err |-> "", msgs |-> msgs]

\* TraceImporter::load: by the suffix of the file name, in lower case.
load(file) ==
    IF file.suffix = "asc" THEN loadAsc(file.lines)
    ELSE IF file.suffix = "blf" THEN loadBlf(file.bytes)
    ELSE [err |-> "Unsupported trace format", msgs |-> <<>>]

\* --------------------------------------------------------------- Init
InitApp ==
    /\ m_frames = <<>>
    /\ m_displayMode \in {"Append", "InPlace"}
    /\ m_inPlaceRows = NoRows
    /\ notif = NoNotif
    /\ hist = FreshHist(m_displayMode)
    /\ nextSeq = 0
    /\ m_connected = FALSE
    /\ m_measuring = FALSE
    /\ m_paused = FALSE
    /\ m_inPlaceDisplayMode = (m_displayMode = "InPlace")
    /\ m_pending = <<>>
    /\ m_framesSinceLastSec = 0
    /\ flushTimerActive = FALSE
    /\ rateTimerActive = FALSE
    /\ portCheckTimerActive = FALSE
    /\ m_initComplete = FALSE
    /\ m_portChecking = FALSE
    /\ portWorker = FALSE
    /\ autoStartArmed = FALSE
    /\ m_driver \in {"Vector", "Demo"}
    /\ m_driverOpen = FALSE
    /\ m_portHandle = FALSE
    /\ m_asyncRunning = FALSE
    /\ m_open = FALSE
    /\ m_channelInfos = 0
    /\ m_initThread = 0
    /\ initThreads = [t \in ThreadIds |-> NoThread]
    /\ eventQueue = <<>>
    /\ hwPresent \in BOOLEAN
    /\ dbcWorkers = 0
    /\ dbcLoaded = FALSE
    /\ started = [dbc |-> 0, init |-> 0]
    /\ errorOccurred = 0
    /\ last = NoLast

NoCall == [fn |-> "none", arg |-> 0]
NoValue == [done |-> FALSE, value |-> 0]
Returned(v) == [done |-> TRUE, value |-> v]

NoRecipe ==
    [format |-> "", signature |-> <<>>, statsSize |-> 0, headLength |-> 0,
     items |-> <<>>]

\* ------------------------------------------------ channel configuration
\* AppController::MAX_CHANNELS, scaled down like MAX_ROWS.
MAX_CHANNELS == 2

Slots == 1..MAX_CHANNELS

\* DBC files on disk; every other path names no file.
DbcFiles == {"a.dbc", "b.dbc"}

DbMessage(id, name) == [id |-> id, name |-> name]

\* DBCParser::parseFile: the messages of the file, none for a file that
\* cannot be read.  Two files that share an identifier.
parseFile(path) ==
    CASE path = "a.dbc" -> <<DbMessage(1, "A1")>>
      [] path = "b.dbc" -> <<DbMessage(1, "B1"), DbMessage(2, "B2")>>
      [] OTHER -> <<>>

CANChannelUserConfig(enabled, dbcFilePath) ==
    [enabled |-> enabled, dbcFilePath |-> dbcFilePath]

\* The channel members of the controller as one value.
ChannelState ==
    [configs |-> m_channelConfigs, dbs |-> m_channelDbs, merged |-> m_dbcDb]

\* The loop of rebuildMergedDbc from slot i on.
RECURSIVE rebuildLoop(_, _)
rebuildLoop(c, i) ==
    IF i > MAX_CHANNELS THEN c
    ELSE IF ~c.configs[i].enabled THEN rebuildLoop(c, i + 1)
    ELSE IF c.configs[i].dbcFilePath = "" THEN rebuildLoop(c, i + 1)
    ELSE LET c1 == IF c.dbs[i] = <<>>
                   THEN [c EXCEPT !.dbs[i] =
                            parseFile(c.configs[i].dbcFilePath)]
                   ELSE c
         IN  IF c1.dbs[i] = <<>> THEN rebuildLoop(c1, i + 1)
             ELSE rebuildLoop([c1 EXCEPT !.merged = @ \o c1.dbs[i]], i + 1)

rebuildMergedDbc(c) == rebuildLoop([c EXCEPT !.merged = <<>>], 1)

applyChannelConfigs(c, configs) ==
    LET count == Min(Len(configs), MAX_CHANNELS)
    IN  rebuildMergedDbc(
            [c EXCEPT !.configs =
                [i \in Slots |-> IF i <= count THEN configs[i] ELSE @[i]]])

\* ch counts from 0 as in the source; the slots of the model from 1.
preloadChannelDbc(c, ch, filePath) ==
    IF ch < 0 \/ ch >= MAX_CHANNELS THEN c
    ELSE IF filePath \notin DbcFiles THEN c
    ELSE [c EXCEPT !.dbs[ch + 1] = parseFile(filePath),
                   !.configs[ch + 1].dbcFilePath = filePath]

\* The slot connectChannels takes its bus settings from: the first enabled
\* one, 0 when none is enabled and it falls back to the defaults.
RECURSIVE firstEnabledFrom(_, _)
firstEnabledFrom(configs, i) ==
    IF i > MAX_CHANNELS THEN 0
    ELSE IF configs[i].enabled THEN i
    ELSE firstEnabledFrom(configs, i + 1)

firstEnabled(configs) == firstEnabledFrom(configs, 1)

\* connectChannels gets as far as rebuildMergedDbc and openChannel.
connectReachesOpen(e, libOk) ==
    /\ ~e.connected
    /\ LET i == initialize(e, libOk)
       IN  /\ i.ok
           /\ (IF i.e.channelInfos = 0 /\ i.e.driver = "Demo"
               THEN detectChannels(i.e, "Demo")
               ELSE i.e.channelInfos) # 0

CommitChannels(c) ==
    /\ m_channelConfigs' = c.configs
    /\ m_channelDbs' = c.dbs
    /\ m_dbcDb' = c.merged

InitChannels ==
    /\ m_channelConfigs = [i \in Slots |-> CANChannelUserConfig(FALSE, "")]
    /\ m_channelDbs = [i \in Slots |-> <<>>]
    /\ m_dbcDb = <<>>
    /\ boundSlot = 0

InitLogger ==
    /\ markerExists = FALSE
    /\ m_installed = FALSE
    /\ sessionPc = "off"
    /\ sessions = 0
    /\ sessionEnds = <<>>
    /\ headerReported = FALSE
    /\ mainReported = FALSE
    /\ m_messageCount = 0

InitRxThread ==
    /\ m_rxThread = "none"
    /\ stopPc = "idle"
    /\ waitsAfterStop = 0
    /\ publishedAfterStop = 0

InitOther ==
    /\ InitChannels
    /\ InitLogger
    /\ InitRxThread

InitAux ==
    /\ call = NoCall
    /\ result = NoValue
    /\ recipe = NoRecipe
    /\ InitOther

Init ==
    /\ InitApp
    /\ codecStep = "idle"
    /\ exportFrames = <<>>
    /\ traceFile = NoFile
    /\ importResult = NoResult
    /\ InitAux

\* ------------------------------------------- TraceModel driven directly
AddEntries ==
    \E n \in 0..Min(MaxBatch, MaxArrivals - nextSeq) :
        \E kinds \in [1..n -> FrameKinds] :
            LET m == AddEntriesH(Current, StampBatch(kinds, nextSeq))
            IN  /\ m_frames' = m.frames
                /\ m_displayMode' = m.mode
                /\ m_inPlaceRows' = m.rows
                /\ notif' = m.notif
                /\ hist' = m.hist
                /\ nextSeq' = nextSeq + n
                /\ UNCHANGED <<engineVars, codecVars, auxVars, otherVars>>

SetDisplayMode ==
    \E mode \in {"Append", "InPlace"} :
        LET m == SetDisplayModeH(Current, mode)
        IN  /\ m_frames' = m.frames
            /\ m_displayMode' = m.mode
            /\ m_inPlaceRows' = m.rows
            /\ notif' = m.notif
            /\ hist' = m.hist
            /\ UNCHANGED <<nextSeq, engineVars, codecVars, auxVars, otherVars>>

Clear ==
    LET m == ClearH(Current)
    IN  /\ m_frames' = m.frames
        /\ m_displayMode' = m.mode
        /\ m_inPlaceRows' = m.rows
        /\ notif' = m.notif
        /\ hist' = m.hist
        /\ UNCHANGED <<nextSeq, engineVars, codecVars, auxVars, otherVars>>

NextTrace == AddEntries \/ SetDisplayMode \/ Clear

\* The model alone: the engine around it stays as constructed, on the
\* simulator.
InitTrace == Init /\ m_driver = "Demo" /\ ~hwPresent

SpecTrace == InitTrace /\ [][NextTrace]_vars

\* ------------------------------------------------------ engine actions
ConnectChannels ==
    \E libOk \in BOOLEAN :
        Commit(Did("connect", connectChannels(State, libOk)))

DisconnectChannels ==
    Commit(Did("disconnect", disconnectChannels(State)))

StartMeasurement ==
    \E libOk \in BOOLEAN :
        Commit(Did("start", startMeasurement(State, libOk)))

StopMeasurement ==
    Commit(Did("stop", stopMeasurement(State)))

PauseMeasurement ==
    Commit(Did("pause", pauseMeasurement(State)))

SetInPlaceDisplayMode ==
    \E enabled \in BOOLEAN :
        Commit(Did("mode", setInPlaceDisplayMode(State, enabled)))

ClearTrace ==
    Commit(Did("clear", clearTrace(State)))

ImportFiles ==
    { [outcome |-> o, frames |-> <<>>] :
        o \in {"missing", "unsupported", "codec", "ok"} }
    \cup
    { [outcome |-> o,
       frames |-> [i \in 1..n |-> BusFrame(ImportBase + i - 1)]] :
         o \in {"codec", "ok"}, n \in 1..MaxImport }

ImportTraceLog ==
    \E f \in ImportFiles, append \in BOOLEAN :
        LET r == importTraceLog(State, f.outcome, f.frames, append)
        IN  Commit(Did(IF r.ok THEN "import" ELSE "importFailed", r.e))

SendFrame ==
    LET fails == m_connected /\ m_driver = "Vector" /\ m_portHandle
                 /\ ~hwPresent
    IN  Commit(Did(IF fails THEN "error" ELSE "send", sendFrame(State, 1)))

\* The simulator's timer makes a frame and calls onFrameReceived directly.
DemoTick ==
    /\ m_driver = "Demo"
    /\ m_open
    /\ nextSeq < MaxPublish
    /\ LET msg == DemoFrame(nextSeq + 1)
       IN  Commit(Did("frame", [onFrameReceived(State, msg)
                                   EXCEPT !.nextSeq = nextSeq + 1]))

\* One iteration of the Vector receive loop: a frame is emitted to the
\* engine thread, or xlReceive fails and makeError emits errorOccurred.
VectorRxIteration ==
    /\ m_driver = "Vector"
    /\ m_asyncRunning
    /\ Len(eventQueue) < MaxQueue
    /\ IF hwPresent
       THEN /\ nextSeq < MaxPublish
            /\ LET msg == BusFrame(nextSeq + 1)
               IN  Commit([Post(State, Event("frame", msg, 0, FALSE, 0,
                                             FALSE))
                              EXCEPT !.nextSeq = nextSeq + 1])
       ELSE Commit(Post(State, Event("error", NoMsg, 0, FALSE, 0, TRUE)))

DispatchEvent ==
    /\ eventQueue # <<>>
    /\ Head(eventQueue).type = "dbcResult" /\ ~isRunning(State, m_initThread)
           => FreeThread(State) # 0
    /\ LET ev == Head(eventQueue)
           e == [State EXCEPT !.queue = Tail(@)]
       IN  Commit(Did(ev.type, dispatch(e, ev)))

FlushTick ==
    /\ flushTimerActive
    /\ Commit(Did("flush", flushPendingFrames(State)))

RateTick ==
    /\ rateTimerActive
    /\ Commit(Did("rate", updateFrameRate(State)))

HealthTick ==
    /\ portCheckTimerActive
    /\ Commit(Did("health", checkPortHealth(State)))

\* The port refresh thread detects and posts the list.
PortRefreshRun ==
    /\ portWorker
    /\ Len(eventQueue) < MaxQueue
    /\ Commit([Post(State, Event("portList", NoMsg, 0, FALSE,
                                 detectChannels(State, m_driver), FALSE))
                  EXCEPT !.portWorker = FALSE])

RefreshChannels ==
    \E t \in 1..MaxInitThreads :
        /\ initThreads[t].pc = "none"
        /\ \A u \in 1..(t - 1) : initThreads[u].pc # "none"
        /\ Commit(Did("refresh", refreshChannels(State, t)))

\* The body of init thread t: initialize, detectChannels, the result
\* posted to the engine thread unless cancelled, then QThread::finished.
\* Until this step the thread is inside the driver calls.
InitThreadRun ==
    \E t \in ThreadIds, libOk \in BOOLEAN :
        /\ initThreads[t].pc = "running"
        /\ Len(eventQueue) + 2 <= MaxQueue
        /\ LET i == initialize(State, libOk)
               n == IF i.ok THEN detectChannels(i.e, m_driver) ELSE 0
               done == [i.e EXCEPT !.threads[t].pc = "finished"]
               fin == Event("finished", NoMsg, t, FALSE, 0, FALSE)
           IN  IF initThreads[t].cancelled
               THEN Commit(Post(done, fin))
               ELSE Commit(Post(Post(done, Event("initResult", NoMsg, t,
                                                 i.ok, n, FALSE)), fin))

\* The 3 s watchdog of init thread t times out while the current init
\* thread is inside the Vector driver (a thread on the simulator has long
\* ended by then; a timeout with no init thread running changes nothing).
WatchdogFire ==
    \E t \in ThreadIds :
        /\ initThreads[t].wd
        /\ isRunning(State, m_initThread)
        /\ initThreads[m_initThread].drv = "Vector"
        /\ Commit(Did("watchdog", watchdogTimeout(State, t)))

\* The single-shot timer armed by applyDriverInitResult.
AutoStartFire ==
    /\ autoStartArmed
    /\ \E libOk \in BOOLEAN :
         Commit(Did("autostart",
                    startMeasurement([State EXCEPT !.autoStart = FALSE],
                                     libOk)))

HwUnplug ==
    /\ hwPresent
    /\ Commit([State EXCEPT !.hw = FALSE])

HwReplug ==
    /\ ~hwPresent
    /\ Commit([State EXCEPT !.hw = TRUE])

Next ==
    \/ ConnectChannels
    \/ DisconnectChannels
    \/ StartMeasurement
    \/ StopMeasurement
    \/ PauseMeasurement
    \/ SetInPlaceDisplayMode
    \/ ClearTrace
    \/ ImportTraceLog
    \/ SendFrame
    \/ DemoTick
    \/ VectorRxIteration
    \/ DispatchEvent
    \/ FlushTick
    \/ RateTick
    \/ HealthTick
    \/ PortRefreshRun
    \/ RefreshChannels
    \/ InitThreadRun
    \/ WatchdogFire
    \/ AutoStartFire
    \/ HwUnplug
    \/ HwReplug

Spec == Init /\ [][Next]_vars

\* ------------------------------------------- the start-up specification
\* The engine from construction through the start-up sequence, with
\* repeated channel refreshes, their watchdogs, the health probe and the
\* connection and measurement life cycle; no frame is on the bus.
StartInitSequence ==
    /\ started.dbc < MaxDbcWorkers
    /\ Commit(Did("startInit", startInitSequence(State)))

\* The body of a DBC worker: the files are parsed without touching the
\* engine, and the result lambda is posted to the engine thread.
DbcWorkerRun ==
    /\ dbcWorkers > 0
    /\ Len(eventQueue) < MaxQueue
    /\ Commit([Post(State, Event("dbcResult", NoMsg, 0, FALSE, 0, FALSE))
                  EXCEPT !.dbcWorkers = @ - 1])

\* The body of init thread t up to the posting of its result: initialize,
\* the test of the cancelled flag, detectChannels, the second test, and
\* invokeMethod.  A cancelled thread returns without posting.
InitThreadPost ==
    \E t \in ThreadIds, libOk \in BOOLEAN :
        /\ initThreads[t].pc = "running"
        /\ Len(eventQueue) < MaxQueue
        /\ LET i == initialize(State, libOk)
               n == IF i.ok THEN detectChannels(i.e, m_driver) ELSE 0
           IN  IF initThreads[t].cancelled
               THEN Commit(Post([i.e EXCEPT !.threads[t].pc = "finished"],
                                Event("finished", NoMsg, t, FALSE, 0,
                                      FALSE)))
               ELSE Commit(Post([i.e EXCEPT !.threads[t].pc = "posted"],
                                Event("initResult", NoMsg, t, i.ok, n,
                                      FALSE)))

\* Init thread t returns from its body: QThread::finished is emitted.
InitThreadExit ==
    \E t \in ThreadIds :
        /\ initThreads[t].pc = "posted"
        /\ Len(eventQueue) < MaxQueue
        /\ Commit(Post([State EXCEPT !.threads[t].pc = "finished"],
                       Event("finished", NoMsg, t, FALSE, 0, FALSE)))

RefreshChannelsAgain ==
    /\ FreeThread(State) # 0
    /\ Commit(Did("refresh", refreshChannels(State, FreeThread(State))))

NextStartup ==
    \/ StartInitSequence
    \/ DbcWorkerRun
    \/ RefreshChannelsAgain
    \/ InitThreadPost
    \/ InitThreadExit
    \/ WatchdogFire
    \/ DispatchEvent
    \/ ConnectChannels
    \/ DisconnectChannels
    \/ StartMeasurement
    \/ StopMeasurement
    \/ PauseMeasurement
    \/ AutoStartFire
    \/ HealthTick
    \/ PortRefreshRun
    \/ HwUnplug
    \/ HwReplug

SpecStartup == Init /\ [][NextStartup]_vars

\* ------------------------------------------------ the codecs driven directly
\* A frame handed to the exporters.
Frame(id, channel, ext, fd, remote, error, tx, ts, dlc, bytes, brs) ==
    CANFrame(CANMessage(id, channel, ext, fd, remote, error, tx, ts), dlc,
             bytes, brs)

\* The frames the lists are drawn from: classical data frames (no payload,
\* full payload, extended identifiers above and below 0x7FF), FD data frames
\* (DLC 0, 9 and 15, with and without BRS), a remote frame and an error
\* frame; receive and transmit, channels 1, 2 and 255, and timestamps on and
\* off the microsecond and the 10 ns grid.
CodecFrames ==
    { Frame(196, 1, FALSE, FALSE, FALSE, FALSE, FALSE, 0, 0, <<>>, FALSE),
      Frame(2047, 2, FALSE, FALSE, FALSE, FALSE, TRUE, 1234567890, 8,
            <<160, 15, 84, 0, 255, 1, 10, 171>>, FALSE),
      Frame(417018865, 2, TRUE, FALSE, FALSE, FALSE, TRUE, 1234567000, 4,
            <<1, 2, 3, 4>>, FALSE),
      Frame(5, 255, TRUE, FALSE, FALSE, FALSE, FALSE, 15, 1, <<0>>, FALSE),
      Frame(1, 1, FALSE, TRUE, FALSE, FALSE, FALSE, 1999, 9,
            <<11, 12, 13, 14, 15, 16, 17, 18, 19, 20, 21, 222>>, TRUE),
      Frame(536870911, 3, TRUE, TRUE, FALSE, FALSE, TRUE, 30000, 15,
            [i \in 1..64 |-> (i * 7) % 256], FALSE),
      Frame(256, 1, FALSE, TRUE, FALSE, FALSE, FALSE, 1501, 0, <<>>, TRUE),
      Frame(512, 1, FALSE, FALSE, TRUE, FALSE, FALSE, 20000, 2, <<>>, FALSE),
      Frame(0, 1, FALSE, FALSE, FALSE, TRUE, FALSE, 10499, 0, <<>>, FALSE) }

RECURSIVE FrameLists(_)
FrameLists(n) ==
    IF n = 0 THEN {<<>>}
    ELSE FrameLists(n - 1)
         \cup {Append(l, f) : l \in {x \in FrameLists(n - 1) :
                                        Len(x) = n - 1},
                              f \in CodecFrames}

InitCodec ==
    /\ InitApp
    /\ m_displayMode = "Append"
    /\ m_driver = "Demo"
    /\ ~hwPresent
    /\ codecStep = "input"
    /\ exportFrames \in FrameLists(MaxFrames)
    /\ traceFile = NoFile
    /\ importResult = NoResult
    /\ InitAux

SaveAsBLF ==
    /\ codecStep = "input"
    /\ traceFile' = [suffix |-> "blf", bytes |-> saveAsBLF(exportFrames),
                     lines |-> <<>>]
    /\ codecStep' = "saved"
    /\ UNCHANGED <<traceVars, nextSeq, engineVars, auxVars, otherVars, exportFrames,
                   importResult>>

SaveAsAsc ==
    /\ codecStep = "input"
    /\ traceFile' = [suffix |-> "asc", bytes |-> <<>>,
                     lines |-> saveAsAsc(exportFrames)]
    /\ codecStep' = "saved"
    /\ UNCHANGED <<traceVars, nextSeq, engineVars, auxVars, otherVars, exportFrames,
                   importResult>>

Load ==
    /\ codecStep = "saved"
    /\ importResult' = load(traceFile)
    /\ codecStep' = "loaded"
    /\ UNCHANGED <<traceVars, nextSeq, engineVars, auxVars, otherVars, exportFrames,
                   traceFile>>

NextCodec ==
    \/ SaveAsBLF
    \/ SaveAsAsc
    \/ Load

SpecCodec == InitCodec /\ [][NextCodec]_vars

\* ------------------------------------------------------- trace claims
Arrived == hist.arrived

\* C1: after any sequence of TraceModel operations the number of frame rows
\* is at most MAX_ROWS.
C1_RowCap == Len(m_frames) <= MAX_ROWS

C3_OneRangeEach == notif.removes <= 1 /\ notif.inserts <= 1

\* C5: in In-place mode, from an empty model and while fewer than MAX_ROWS
\* distinct fingerprints have arrived, the row count is the number of
\* distinct fingerprints seen, and each fingerprint's row is at the position
\* of its first arrival and holds its last arrival.
C5_InPlaceIdentity ==
    (hist.tracked /\ hist.epochMode = "InPlace") =>
        /\ Len(m_frames) = Cardinality(DOMAIN hist.seen)
        /\ \A fp \in DOMAIN hist.seen :
              /\ Fingerprint(m_frames[hist.seen[fp].first]) = fp
              /\ m_frames[hist.seen[fp].first].timestamp = hist.seen[fp].last

\* Two fingerprints seen, and more arrivals than fingerprints: an arrival
\* replaced a row.
C5_Witness ==
    /\ hist.tracked
    /\ hist.epochMode = "InPlace"
    /\ Cardinality(DOMAIN hist.seen) >= 2
    /\ Arrived > Cardinality(DOMAIN hist.seen)
    /\ \E fp \in DOMAIN hist.seen : hist.seen[fp].first = 1 /\ hist.seen[fp].last = nextSeq

\* ------------------------------------------------------ engine claims
\* Where the frame of a row comes from.
Publisher(row) ==
    IF m_frames[row].timestamp >= ImportBase THEN "file"
    ELSE IF m_frames[row].timestamp >= DemoClock THEN "Demo"
    ELSE "Vector"

\* C4: in Append mode, of any two rows holding frames the same driver
\* published, the upper one holds the frame published first (so no
\* published frame is in two rows).
C4_AppendOrder ==
    hist.epochMode = "Append" =>
        \A i, j \in 1..Len(m_frames) :
            (i < j /\ Publisher(i) = Publisher(j) /\ Publisher(i) # "file") =>
                m_frames[i].timestamp < m_frames[j].timestamp

\* Two frames of one driver are rows, while measuring.
C4_Witness ==
    /\ hist.epochMode = "Append"
    /\ m_measuring
    /\ \E i, j \in 1..Len(m_frames) :
          i < j /\ Publisher(i) = Publisher(j) /\ Publisher(i) # "file"

\* The step is a call of onFrameReceived by a driver.
Delivery ==
    \/ DemoTick
    \/ /\ eventQueue # <<>>
       /\ Head(eventQueue).type = "frame"
       /\ DispatchEvent

\* C6: a frame delivered while measuring and paused is added to the
\* pending buffer.
C6_PausedFramesKept ==
    [][(m_measuring /\ m_paused /\ Delivery) =>
          Len(m_pending') = Len(m_pending) + 1]_vars

\* C7: a frame delivered while connected and not measuring leaves the
\* pending buffer, the model and the per-second counter as they were.
C7_IdleFramesDropped ==
    [][(m_connected /\ ~m_measuring /\ Delivery) =>
          UNCHANGED <<m_pending, m_frames, m_inPlaceRows,
                      m_framesSinceLastSec>>]_vars

C7_Witness ==
    /\ last.op = "frame"
    /\ m_connected
    /\ ~m_measuring
    /\ nextSeq > 0
    /\ m_pending = <<>>

\* (connected, measuring, paused) and the driver's open state.
Flags(e) == <<e.connected, e.measuring, e.paused, isOpen(e)>>

\* C8: connect, start, stop and disconnect, run a second time right after
\* the first, leave the flags and the driver's open state as the first run
\* left them.
C8_Idempotent ==
    \A libOk \in BOOLEAN :
        LET c == connectChannels(State, libOk)
            a == startMeasurement(State, libOk)
            o == stopMeasurement(State)
            d == disconnectChannels(State)
        IN  /\ Flags(connectChannels(c, libOk)) = Flags(c)
            /\ Flags(startMeasurement(a, libOk)) = Flags(a)
            /\ Flags(stopMeasurement(o)) = Flags(o)
            /\ Flags(disconnectChannels(d)) = Flags(d)

\* C9: a stop issued while measuring ends connected, not measuring, not
\* paused, with the driver open if it was; a disconnect issued while
\* connected ends not connected, not measuring, not paused, with the
\* driver closed.
C9_StopKeepsDisconnectReleases ==
    /\ last.op = "stop" =>
          /\ m_connected /\ ~m_measuring /\ ~m_paused
          /\ last.open => isOpen(State)
    /\ last.op = "disconnect" =>
          /\ ~m_connected /\ ~m_measuring /\ ~m_paused
          /\ ~isOpen(State)

C9_Witness ==
    /\ last.op = "stop"
    /\ last.open
    /\ m_connected
    /\ isOpen(State)

\* C10: measuring implies connected and paused implies measuring.
C10_FourStates ==
    /\ m_measuring => m_connected
    /\ m_paused => m_measuring

\* Open-measuring-paused on the Vector driver, with a call in flight.
C10_Witness ==
    /\ m_connected /\ m_measuring /\ m_paused
    /\ m_driver = "Vector"
    /\ eventQueue # <<>>

C12_ReportedOnce ==
    [][(/\ last.op = "error"
        /\ ~m_connected
        /\ eventQueue # <<>>
        /\ Head(eventQueue).type = "error"
        /\ eventQueue' = Tail(eventQueue))
       => errorOccurred' = 0]_vars

\* C13: a health tick that finds the engine connected and the driver's
\* isOpen() false closes in order: afterwards the engine is not connected,
\* not measuring and not paused, the pending buffer is empty, the flush and
\* rate timers are stopped and the driver's receive thread is not running.
C13_HealthTickCloses ==
    last.op = "health" =>
        /\ ~m_connected
        /\ ~m_measuring
        /\ ~m_paused
        /\ m_pending = <<>>
        /\ ~flushTimerActive
        /\ ~rateTimerActive
        /\ ~m_asyncRunning

\* C14: m_initComplete turns true only after the start-up DBC results are
\* stored and merged, and only in the step that applies an init worker's
\* returned result or in the watchdog step that abandons the worker and
\* installs the simulator; once true it never turns false.
C14_InitCompleteOrder ==
    [][/\ m_initComplete => m_initComplete'
       /\ ~m_initComplete /\ m_initComplete' =>
             /\ dbcLoaded
             /\ \/ /\ eventQueue # <<>>
                   /\ Head(eventQueue).type = "initResult"
                   /\ eventQueue' = Tail(eventQueue)
                \/ /\ m_driver' = "Demo"
                   /\ \E t \in ThreadIds : /\ ~initThreads[t].cancelled
                                            /\ initThreads'[t].cancelled]_vars

\* C15: the start-up sequence runs once: however often startInitSequence
\* is invoked, it starts at most one DBC worker and at most one init worker.
C15_StartupOnce ==
    /\ started.dbc <= 1
    /\ started.init <= 1

\* The members of AppController and of its trace model.
EngineMembers ==
    <<m_connected, m_measuring, m_paused, m_inPlaceDisplayMode, m_pending,
      m_framesSinceLastSec, flushTimerActive, rateTimerActive,
      portCheckTimerActive, m_initComplete, m_portChecking, autoStartArmed,
      m_driver, m_channelInfos, m_initThread, dbcLoaded, m_frames,
      m_displayMode, m_inPlaceRows>>

\* C16: when the watchdog fires before the init worker has delivered its
\* result, the simulator becomes the current driver and the result is
\* abandoned: the worker's posted lambda does not run applyDriverInitResult
\* (it leaves every engine member as it was), and the steps of the
\* abandoned worker itself write no engine member.
C16_StalledResultAbandoned ==
    [][/\ \A t \in ThreadIds :
             ~initThreads[t].cancelled /\ initThreads'[t].cancelled
                 => m_driver' = "Demo"
       /\ (/\ eventQueue # <<>>
           /\ Head(eventQueue).type = "initResult"
           /\ initThreads[Head(eventQueue).t].cancelled
           /\ eventQueue' = Tail(eventQueue))
          => UNCHANGED EngineMembers
       /\ \A t \in ThreadIds :
             (/\ initThreads[t].cancelled
              /\ initThreads[t].pc \in {"running", "posted"}
              /\ initThreads'[t].pc = "finished")
                 => UNCHANGED EngineMembers]_vars

\* The posted result of an abandoned worker has been run and dropped: it
\* reported no channel, and the simulator's channel is still listed.
C16_Witness ==
    /\ last.op = "abandoned"
    /\ m_driver = "Demo"
    /\ m_initComplete
    /\ m_channelInfos = 1
    /\ ~hwPresent

\* C17: in every reachable state, an import that fails (file missing,
\* unsupported extension, codec error, or no frame found) returns failure
\* and leaves the model rows, the pending buffer and the measuring and
\* paused flags exactly as they were.
C17_FailedImportKeepsState ==
    \A f \in ImportFiles, append \in BOOLEAN :
        f.outcome # "ok" \/ f.frames = <<>> =>
            LET r == importTraceLog(State, f.outcome, f.frames, append)
            IN  /\ ~r.ok
                /\ r.e.tm.frames = m_frames
                /\ r.e.tm.rows = m_inPlaceRows
                /\ r.e.pending = m_pending
                /\ r.e.measuring = m_measuring
                /\ r.e.paused = m_paused
                /\ r.e.flushTimer = flushTimerActive

\* An import has failed during a measurement with frames pending and rows
\* on display.
C17_Witness ==
    /\ last.op = "importFailed"
    /\ m_measuring
    /\ m_pending # <<>>
    /\ m_frames # <<>>

\* ------------------------------------------------------- codec claims
\* The payload of a frame: its first dataLength() data bytes.
Payload(msg) == SubSeq(msg.data, 1, dataLength(msg))

\* A frame the BLF records can carry: a classical or FD data frame with a
\* 1-based 8-bit channel, a 29-bit identifier, a DLC of its kind and BRS on
\* FD frames only.
BlfRepresentable(msg) ==
    /\ ~msg.isError /\ ~msg.isRemote
    /\ msg.channel \in 1..255
    /\ msg.id <= 536870911
    /\ msg.dlc <= (IF msg.isFD THEN 15 ELSE 8)
    /\ msg.isBRS => msg.isFD

BlfCase ==
    /\ traceFile.suffix = "blf"
    /\ \A i \in 1..Len(exportFrames) : BlfRepresentable(exportFrames[i])

\* C18: for a list of frames representable in BLF, saveAsBLF followed by
\* TraceImporter::load gives a list of the same length and order in which
\* each frame equals the original in id, channel, dlc, payload bytes and
\* the extended, FD, BRS and tx flags, and has the original's timestamp
\* rounded down to a multiple of 10 ns.
C18_BlfRoundTrip ==
    (codecStep = "loaded" /\ BlfCase) =>
        /\ Len(importResult.msgs) = Len(exportFrames)
        /\ \A i \in 1..Len(exportFrames) :
              LET in == exportFrames[i]
                  out == importResult.msgs[i]
              IN  /\ out.id = in.id
                  /\ out.channel = in.channel
                  /\ out.dlc = in.dlc
                  /\ Payload(out) = Payload(in)
                  /\ out.isExtended = in.isExtended
                  /\ out.isFD = in.isFD
                  /\ out.isBRS = in.isBRS
                  /\ out.isTxConfirm = in.isTxConfirm
                  /\ out.timestamp = (in.timestamp \div 10) * 10

C18_Witness ==
    /\ codecStep = "loaded"
    /\ BlfCase
    /\ importResult.err = ""
    /\ Len(importResult.msgs) = 2
    /\ exportFrames[1].isFD /\ exportFrames[1].isBRS
    /\ exportFrames[1].dlc = 9
    /\ ~exportFrames[2].isFD /\ exportFrames[2].isExtended
    /\ exportFrames[2].channel = 255
    /\ exportFrames[2].timestamp % 10 # 0
    /\ importResult.msgs[2].timestamp % 10 = 0

\* The frames saveAsBLF writes a record for.
WrittenFrames(frames) ==
    SelectSeq(frames, LAMBDA m : ~m.isError /\ ~m.isRemote)

RecordSize(msg) == IF msg.isFD THEN 100 ELSE 40

\* The file offset of the k-th record when the records are laid out from
\* byte 144 with 40 bytes per classical and 100 bytes per FD frame.
RECURSIVE RecordOffset(_, _)
RecordOffset(written, k) ==
    IF k = 1 THEN 144
    ELSE RecordOffset(written, k - 1) + RecordSize(written[k - 1])

\* The number of LOBJ records of a file, walked from offset pos by their
\* size fields.
RECURSIVE CountLobj(_, _)
CountLobj(bytes, pos) ==
    IF pos + 24 > Len(bytes) \/ SubSeq(bytes, pos + 1, pos + 4) # LobjSignature
    THEN 0
    ELSE IF ReadLE(bytes, pos + 8, 4) < 24 THEN 1
    ELSE 1 + CountLobj(bytes, pos + ReadLE(bytes, pos + 8, 4))

\* C20: after saveAsBLF, bytes 12..15 and bytes 16..19 hold the number of
\* LOBJ records of the file, which is the number of input frames that are
\* neither error nor remote; bytes 32..39 hold the last written frame's
\* timestamp in 10 ns ticks; the first record starts at byte 144, a
\* classical record occupies 40 bytes and an FD record 100 bytes.
C20_BlfStatistics ==
    (codecStep = "saved" /\ traceFile.suffix = "blf") =>
        LET written == WrittenFrames(exportFrames)
            bytes == traceFile.bytes
            n == Len(written)
        IN  /\ ReadLE(bytes, 12, 4) = n
            /\ ReadLE(bytes, 16, 4) = n
            /\ CountLobj(bytes, 144) = n
            /\ n > 0 => ReadLE(bytes, 32, 8) = written[n].timestamp \div 10
            /\ \A k \in 1..n :
                  LET at == RecordOffset(written, k)
                  IN  /\ SubSeq(bytes, at + 1, at + 4) = LobjSignature
                      /\ ReadLE(bytes, at + 8, 4) = RecordSize(written[k])
                      /\ ReadLE(bytes, at + 12, 4) =
                             (IF written[k].isFD THEN BLF_OBJ_CAN_FD_MESSAGE
                              ELSE BLF_OBJ_CAN_MESSAGE)
            /\ Len(bytes) = RecordOffset(written, n + 1)

C20_Witness ==
    /\ codecStep = "saved"
    /\ traceFile.suffix = "blf"
    /\ Len(exportFrames) = 2
    /\ exportFrames[1].isFD
    /\ exportFrames[1].timestamp > 0
    /\ exportFrames[2].isRemote
    /\ Len(traceFile.bytes) = 244

\* A frame the ASC lines can carry: a 1-based 8-bit channel, a 29-bit
\* identifier that is above 0x7FF only when extended, and one of: an error
\* frame (the line carries neither DLC nor data), a remote frame (a DLC of
\* at most 8, no data), an FD data frame (a DLC of at most 15) or a
\* classical data frame (a DLC of at most 8).
AscRepresentable(msg) ==
    /\ msg.channel \in 1..255
    /\ msg.id <= 536870911
    /\ ~msg.isExtended => msg.id <= 2047
    /\ IF msg.isError
       THEN ~msg.isRemote /\ ~msg.isFD /\ ~msg.isBRS /\ msg.dlc = 0
       ELSE IF msg.isRemote
       THEN ~msg.isFD /\ ~msg.isBRS /\ msg.dlc <= 8
            /\ Payload(msg) = Zeros(msg.dlc)
       ELSE IF msg.isFD THEN msg.dlc <= 15
       ELSE ~msg.isBRS /\ msg.dlc <= 8

AscCase ==
    /\ traceFile.suffix = "asc"
    /\ \A i \in 1..Len(exportFrames) : AscRepresentable(exportFrames[i])

\* C19: for a list of frames representable in ASC, saveAsAsc followed by
\* TraceImporter::load gives a list of the same length and order in which
\* each frame equals the original in id, extended flag, channel, direction,
\* frame kind (error, remote, FD), dlc, payload bytes and BRS, and has the
\* original's timestamp rounded to the nearest microsecond.
C19_AscRoundTrip ==
    (codecStep = "loaded" /\ AscCase) =>
        /\ Len(importResult.msgs) = Len(exportFrames)
        /\ \A i \in 1..Len(exportFrames) :
              LET in == exportFrames[i]
                  out == importResult.msgs[i]
              IN  /\ out.id = in.id
                  /\ out.isExtended = in.isExtended
                  /\ out.channel = in.channel
                  /\ out.isTxConfirm = in.isTxConfirm
                  /\ out.isError = in.isError
                  /\ out.isRemote = in.isRemote
                  /\ out.isFD = in.isFD
                  /\ out.dlc = in.dlc
                  /\ Payload(out) = Payload(in)
                  /\ out.isBRS = in.isBRS
                  /\ out.timestamp % 1000 = 0
                  /\ out.timestamp - in.timestamp \in -500..500

C19_Witness ==
    /\ codecStep = "loaded"
    /\ AscCase
    /\ importResult.err = ""
    /\ Len(importResult.msgs) = 2
    /\ traceFile.lines[7] =
           << <<"1", ".", "2", "3", "4", "5", "6", "7">>, <<"2">>,
              <<"1", "8", "D", "B", "3", "3", "F", "1", "x">>, TokTx,
              <<"d">>, <<"4">>, <<"0", "1">>, <<"0", "2">>, <<"0", "3">>,
              <<"0", "4">> >>
    /\ exportFrames[1].id = 417018865
    /\ exportFrames[2].isFD /\ exportFrames[2].isBRS
    /\ exportFrames[2].timestamp = 1999
    /\ importResult.msgs[2].timestamp = 2000
    /\ importResult.msgs[2].dlc = 9

\* ------------------------------------------------ sitting 3: C21..C30
\* C30: in In-place mode, after every TraceModel operation the fingerprint
\* map is exactly the set of pairs (key of row i -> i) over all rows: every
\* row is indexed, every entry points at an existing row with that key, and
\* no two rows share a fingerprint.
C30_IndexExact ==
    m_displayMode = "InPlace" =>
        /\ DOMAIN m_inPlaceRows =
               {makeEntryKey(m_frames[i]) : i \in 1..Len(m_frames)}
        /\ \A i \in 1..Len(m_frames) :
               m_inPlaceRows[makeEntryKey(m_frames[i])] = i
        /\ \A i, j \in 1..Len(m_frames) :
               Fingerprint(m_frames[i]) = Fingerprint(m_frames[j]) => i = j

\* An eviction in In-place mode has just renumbered the rows that remain.
C30_Witness ==
    /\ m_displayMode = "InPlace"
    /\ notif.removes >= 1
    /\ Len(m_frames) >= 2
    /\ \E k \in DOMAIN m_inPlaceRows : m_inPlaceRows[k] = 1

\* The DLC helpers called on their own.
\* The application as constructed, with nothing else going on.
InitQuiet ==
    /\ InitApp
    /\ m_displayMode = "Append"
    /\ m_driver = "Demo"
    /\ ~hwPresent
    /\ codecStep = "idle"
    /\ exportFrames = <<>>
    /\ traceFile = NoFile
    /\ importResult = NoResult

InitDlc ==
    /\ InitQuiet
    /\ call \in [fn : {"lengthToDlc"}, arg : 0..MaxByteCount]
                \cup [fn : {"dlcToLength"}, arg : 0..MaxDlc]
    /\ result = NoValue
    /\ recipe = NoRecipe
    /\ InitOther

LengthToDlc ==
    /\ call.fn = "lengthToDlc"
    /\ result = NoValue
    /\ result' = Returned(lengthToDlc(call.arg))
    /\ UNCHANGED <<traceVars, nextSeq, engineVars, codecVars, call, recipe, otherVars>>

DlcToLength ==
    /\ call.fn = "dlcToLength"
    /\ result = NoValue
    /\ result' = Returned(dlcToLength(call.arg))
    /\ UNCHANGED <<traceVars, nextSeq, engineVars, codecVars, call, recipe, otherVars>>

NextDlc ==
    \/ LengthToDlc
    \/ DlcToLength

SpecDlc == InitDlc /\ [][NextDlc]_vars

\* C23: for every byte count n in 0..64, dlcToLength(lengthToDlc(n)) >= n
\* and lengthToDlc(n) is the smallest DLC code with that property; for every
\* DLC code d in 0..15, lengthToDlc(dlcToLength(d)) = d.
C23_DlcRoundTrip ==
    /\ (call.fn = "lengthToDlc" /\ result.done /\ call.arg <= 64) =>
          /\ result.value \in 0..15
          /\ dlcToLength(result.value) >= call.arg
          /\ \A d \in 0..15 :
                dlcToLength(d) >= call.arg => d >= result.value
    /\ (call.fn = "dlcToLength" /\ result.done /\ call.arg <= 15) =>
          lengthToDlc(result.value) = call.arg

C23_Witness ==
    /\ call = [fn |-> "lengthToDlc", arg |-> 33]
    /\ result = Returned(14)

\* ------------------------------------ the importer on files of any origin
\* The frames the items of a file are made from.
ItemFrame(kind) ==
    CASE kind = "can" ->
           Frame(256, 1, FALSE, FALSE, FALSE, FALSE, FALSE, 10000, 2,
                 <<17, 34>>, FALSE)
      [] kind = "canfd" ->
           Frame(417018865, 2, TRUE, TRUE, FALSE, FALSE, TRUE, 20000, 9,
                 <<1, 2, 3, 4, 5, 6, 7, 8, 9, 10, 11, 12>>, TRUE)
      [] kind = "padded" ->
           Frame(768, 1, FALSE, FALSE, FALSE, FALSE, FALSE, 30000, 1,
                 <<170>>, FALSE)
      [] kind = "long" ->
           Frame(1024, 3, FALSE, FALSE, FALSE, FALSE, TRUE, 40000, 8,
                 <<8, 7, 6, 5, 4, 3, 2, 1>>, FALSE)
      [] OTHER -> DefaultFrame

\* A BLF object header followed by the given payload.
BlfObject(objectType, ts10ns, payload) ==
    writeBlfObjectHeader(objectType, Len(payload), ts10ns) \o payload

\* The BLF objects a file is put together from:
\*   can, canfd  records as the exporter writes them
\*   padded      a classical record of DLC 1 whose eight data bytes are
\*               all set
\*   long        a classical record followed by eight more bytes inside
\*               its object size
\*   unknown     an object of type 99 whose payload holds the bytes LOBJ
\*   short       an object of type 1 with a payload of 8 bytes
BlfItem(kind) ==
    CASE kind \in {"can", "canfd"} -> blfRecord(ItemFrame(kind))
      [] kind = "padded" ->
           Patch(blfRecord(ItemFrame(kind)), 33,
                 <<187, 204, 221, 238, 255, 1, 2>>)
      [] kind = "long" ->
           Patch(blfRecord(ItemFrame(kind)) \o Zeros(8), 8, LE(48, 4))
      [] kind = "unknown" ->
           BlfObject(99, 0, LobjSignature \o <<1, 2, 3, 4>>)
      [] kind = "short" -> BlfObject(BLF_OBJ_CAN_MESSAGE, 0, Zeros(8))

BlfItemKinds == {"can", "canfd", "padded", "long", "unknown", "short"}

RECURSIVE Concat(_)
Concat(seqs) == IF seqs = <<>> THEN <<>> ELSE Head(seqs) \o Concat(Tail(seqs))

\* The bytes of a BLF file with the given signature and statistics-block
\* size field, a head of headLength bytes and the items after it.
BlfBytes(r) ==
    SubSeq(r.signature \o LE(r.statsSize, 4) \o LE(BLF_API_VERSION, 4)
           \o LE(Len(r.items), 4) \o Zeros(BLF_STATS_SIZE), 1, r.headLength)
    \o Concat([i \in 1..Len(r.items) |-> BlfItem(r.items[i])])

\* The ASC lines a file is put together from:
\*   data    "d 8" followed by two bytes
\*   fd      "CANFD 9" followed by three bytes and BRS
\*   remote  "r 2" followed by two byte tokens
\*   error   "ErrorFrame" followed by two byte tokens
\*   junk    a line of four tokens
AscStart(id) ==
    <<formatSeconds(1000), Number(1, 10), rightJustified(Number(id, 16), 3),
      TokRx>>

AscItem(kind) ==
    CASE kind = "data" ->
           AscStart(256) \o <<<<"d">>, Number(8, 10), <<"A", "A">>,
                              <<"B", "B">>>>
      [] kind = "fd" ->
           AscStart(512) \o <<TokCANFD, Number(9, 10), <<"0", "1">>,
                              <<"0", "2">>, <<"0", "3">>, TokBRS>>
      [] kind = "remote" ->
           AscStart(768) \o <<<<"r">>, Number(2, 10), <<"A", "A">>,
                              <<"B", "B">>>>
      [] kind = "error" ->
           AscStart(0) \o <<TokErrorFrame, <<"0", "1">>, <<"0", "2">>>>
      [] kind = "junk" -> AscStart(1)

AscItemKinds == {"data", "fd", "remote", "error", "junk"}

RECURSIVE ItemLists(_, _)
ItemLists(kinds, n) ==
    IF n = 0 THEN {<<>>}
    ELSE ItemLists(kinds, n - 1)
         \cup {Append(l, k) : l \in {x \in ItemLists(kinds, n - 1) :
                                        Len(x) = n - 1},
                              k \in kinds}

\* The files: BLF files with a right or a wrong signature, a statistics
\* size below, at and above 24, equal to the head and beyond the file, and
\* a head cut short; ASC files.
Recipes ==
    [format : {"blf"}, signature : {BlfSignature, <<66, 76, 70, 1>>},
     statsSize : {23, 24, 25, 144, 4000}, headLength : {24, 25, 144},
     items : ItemLists(BlfItemKinds, MaxItems)]
    \cup [format : {"blf"}, signature : {BlfSignature}, statsSize : {144},
          headLength : {0, 3, 4, 11, 12}, items : {<<>>}]
    \cup [format : {"asc"}, signature : {<<>>}, statsSize : {0},
          headLength : {0}, items : ItemLists(AscItemKinds, MaxItems)]

FileOf(r) ==
    IF r.format = "blf"
    THEN [suffix |-> "blf", bytes |-> BlfBytes(r), lines |-> <<>>]
    ELSE [suffix |-> "asc", bytes |-> <<>>,
          lines |-> AscHeader
                    \o [i \in 1..Len(r.items) |-> AscItem(r.items[i])]
                    \o AscFooter]

InitImport ==
    /\ InitApp
    /\ m_displayMode = "Append"
    /\ m_driver = "Demo"
    /\ ~hwPresent
    /\ codecStep = "saved"
    /\ exportFrames = <<>>
    /\ recipe \in Recipes
    /\ traceFile = FileOf(recipe)
    /\ importResult = NoResult
    /\ call = NoCall
    /\ result = NoValue
    /\ InitOther

NextImport == Load

SpecImport == InitImport /\ [][NextImport]_vars

\* The frames a reader that skips unknown objects by their size finds in
\* the items of a BLF file.
RECURSIVE ItemFrames(_)
ItemFrames(items) ==
    IF items = <<>> THEN <<>>
    ELSE (IF Head(items) \in {"unknown", "short"} THEN <<>>
          ELSE <<ItemFrame(Head(items))>>) \o ItemFrames(Tail(items))

\* The header of the file read is one the claim wants rejected.
BadBlfHeader ==
    LET bytes == traceFile.bytes
    IN  \/ Len(bytes) < 8
        \/ SubSeq(bytes, 1, 4) # BlfSignature
        \/ ReadLE(bytes, 4, 4) <= 24
        \/ ReadLE(bytes, 4, 4) > Len(bytes)

\* C21: the BLF reader returns an error for every file whose first 4 bytes
\* are not BLF\0 or whose statistics-block size is outside (24, file
\* length]; in a file it accepts, an object of unknown type is skipped by
\* its object size and reading continues with the next object, so the
\* frames returned are those of the known objects, in order.
C21_BlfReaderChecks ==
    (codecStep = "loaded" /\ traceFile.suffix = "blf") =>
        /\ BadBlfHeader => importResult.err # ""
        /\ importResult.err = "" =>
              LET expected == ItemFrames(recipe.items)
              IN  /\ Len(importResult.msgs) = Len(expected)
                  /\ \A i \in 1..Len(expected) :
                        LET in == expected[i]
                            out == importResult.msgs[i]
                        IN  /\ out.id = in.id
                            /\ out.channel = in.channel
                            /\ out.dlc = in.dlc
                            /\ out.isFD = in.isFD
                            /\ Payload(out) = Payload(in)
                            /\ out.timestamp = in.timestamp

\* C22: every frame the importer returns for a file it accepts has zeros at
\* every position of its 64-byte buffer at or beyond the payload length its
\* DLC implies, and a remote or error frame has no data byte set.
C22_FrameInvariant ==
    (codecStep = "loaded" /\ importResult.err = "") =>
        \A i \in 1..Len(importResult.msgs) :
            LET msg == importResult.msgs[i]
            IN  /\ \A k \in 1..64 : k > dataLength(msg) => msg.data[k] = 0
                /\ (msg.isRemote \/ msg.isError) => msg.data = Zeros(64)

\* ------------------------------------------------------------ DBC decode
\* A DBCSignal: its name, its multiplex indicator ("" plain, "M" selector,
\* "m" multiplexed), its multiplex value and its bit field.
DBCSignal(name, muxIndicator, muxValue, startBit, bitLength) ==
    [name |-> name, muxIndicator |-> muxIndicator, muxValue |-> muxValue,
     startBit |-> startBit, bitLength |-> bitLength]

DBCMessage(id, name, signalList) ==
    [id |-> id, name |-> name, signalList |-> signalList]

\* DBCSignal::rawValue of an unsigned little-endian signal: the bits
\* startBit .. startBit + bitLength - 1 of the data, bit b being bit b % 8
\* of byte b \div 8; a bit beyond the data reads as 0.
RECURSIVE Pow2(_)
Pow2(k) == IF k = 0 THEN 1 ELSE 2 * Pow2(k - 1)

DataBit(data, dataLen, b) ==
    IF b \div 8 >= dataLen THEN 0
    ELSE (data[(b \div 8) + 1] \div Pow2(b % 8)) % 2

RECURSIVE rawValueFrom(_, _, _, _)
rawValueFrom(data, dataLen, bit, n) ==
    IF n = 0 THEN 0
    ELSE DataBit(data, dataLen, bit)
         + 2 * rawValueFrom(data, dataLen, bit + 1, n - 1)

rawValue(sig, data, dataLen) ==
    rawValueFrom(data, dataLen, sig.startBit, sig.bitLength)

\* DBCDatabase::messageById: the indices of the messages with the id; the
\* index built over the message list keeps the last of them.
MessagesById(db, id) == {i \in 1..Len(db) : db[i].id = id}

messageById(db, id) ==
    db[CHOOSE i \in MessagesById(db, id) :
           \A j \in MessagesById(db, id) : j <= i]

\* The selector scan of buildEntry: the first signal with indicator "M".
FirstSelector(signalList) ==
    CHOOSE i \in 1..Len(signalList) :
        /\ signalList[i].muxIndicator = "M"
        /\ \A j \in 1..(i - 1) : signalList[j].muxIndicator # "M"

\* The signal loop of buildEntry with no signal skipped.
RECURSIVE signalRowsAll(_, _, _, _, _)
signalRowsAll(signalList, hasMuxSelector, activeMuxRaw, data, dataLen) ==
    IF signalList = <<>> THEN <<>>
    ELSE <<[name |-> Head(signalList).name,
            raw |-> rawValue(Head(signalList), data, dataLen)]>>
         \o signalRowsAll(Tail(signalList), hasMuxSelector, activeMuxRaw,
                          data, dataLen)

\* The signal loop of buildEntry: the rows appended to decodedSignals, each
\* with the signal's name and raw value.
RECURSIVE signalRows(_, _, _, _, _)
signalRows(signalList, hasMuxSelector, activeMuxRaw, data, dataLen) ==
    IF signalList = <<>> THEN <<>>
    ELSE LET sig == Head(signalList)
             isMuxSel == sig.muxIndicator = "M"
             isMuxed == sig.muxIndicator # "" /\ ~isMuxSel
             rest == signalRows(Tail(signalList), hasMuxSelector,
                                activeMuxRaw, data, dataLen)
         IN  IF isMuxed /\ hasMuxSelector /\ sig.muxValue >= 0
                /\ sig.muxValue # activeMuxRaw
             THEN rest
             ELSE <<[name |-> sig.name,
                     raw |-> rawValue(sig, data, dataLen)]>> \o rest

\* The DBC decode of buildEntry: the message name and the signal rows.
decodeEntry(db, msg) ==
    IF db = <<>> \/ MessagesById(db, msg.id) = {}
    THEN [nameStr |-> "", decodedSignals |-> <<>>]
    ELSE LET dbcMsg == messageById(db, msg.id)
             dataLen == dataLength(msg)
             hasMuxSelector ==
                 \E i \in 1..Len(dbcMsg.signalList) :
                     dbcMsg.signalList[i].muxIndicator = "M"
             activeMuxRaw ==
                 IF hasMuxSelector
                 THEN rawValue(dbcMsg.signalList[
                                   FirstSelector(dbcMsg.signalList)],
                               msg.data, dataLen)
                 ELSE -1
         IN  [nameStr |-> dbcMsg.name,
              decodedSignals |-> signalRows(dbcMsg.signalList,
                                            hasMuxSelector, activeMuxRaw,
                                            msg.data, dataLen)]

\* The databases and frames the decode is called on: one message with a
\* 4-bit selector at bit 0, in three orders of its signals, beside a
\* message without multiplexing.
SigPlainA == DBCSignal("A", "", -1, 8, 8)
SigPlainB == DBCSignal("B", "", -1, 16, 8)
SigMux == DBCSignal("Mux", "M", -1, 0, 4)
SigTmp0 == DBCSignal("Tmp0", "m", 0, 8, 8)
SigTmp1 == DBCSignal("Tmp1", "m", 1, 8, 8)
SigTmp2 == DBCSignal("Tmp2", "m", 2, 8, 8)
SigTmp2b == DBCSignal("Tmp2b", "m", 2, 16, 8)

DecodeDbs ==
    { <<DBCMessage(256, "Temps",
                   <<SigMux, SigTmp1, SigTmp2, SigPlainB>>)>>,
      <<DBCMessage(256, "Temps",
                   <<SigTmp1, SigPlainA, SigTmp2, SigMux, SigTmp2b>>),
        DBCMessage(196, "Engine", <<SigPlainA, SigPlainB>>)>>,
      <<DBCMessage(196, "Engine", <<SigPlainA, SigPlainB>>),
        DBCMessage(256, "Temps",
                   <<SigTmp0, SigTmp2b, SigMux, SigTmp1, SigTmp2>>)>>,
      <<>> }

DecodeFrames ==
    { Frame(id, 1, FALSE, FALSE, FALSE, FALSE, FALSE, 0, 3,
            <<b0, 77, 88>>, FALSE) :
        id \in {256, 196, 512}, b0 \in {0, 16} \cup 1..MaxMuxRaw }

InitDecode ==
    /\ InitQuiet
    /\ call \in [fn : {"decodeEntry"},
                 arg : [db : DecodeDbs, msg : DecodeFrames]]
    /\ result = NoValue
    /\ recipe = NoRecipe
    /\ InitOther

DecodeEntry ==
    /\ call.fn = "decodeEntry"
    /\ ~result.done
    /\ result' = Returned(decodeEntry(call.arg.db, call.arg.msg))
    /\ UNCHANGED <<traceVars, nextSeq, engineVars, codecVars, call, recipe, otherVars>>

NextDecode == DecodeEntry

SpecDecode == InitDecode /\ [][NextDecode]_vars

\* The signals of a list the claim wants shown for the selector value v.
RECURSIVE SelectedNames(_, _)
SelectedNames(signalList, v) ==
    IF signalList = <<>> THEN <<>>
    ELSE (IF Head(signalList).muxIndicator \in {"", "M"}
             \/ Head(signalList).muxValue = v
          THEN <<Head(signalList).name>> ELSE <<>>)
         \o SelectedNames(Tail(signalList), v)

RowNames(rows) == [i \in 1..Len(rows) |-> rows[i].name]

\* C24: decoding a frame whose id matches a message with a selector signal
\* of raw value V yields rows for exactly the non-multiplexed signals of the
\* message plus the multiplexed signals whose multiplex value is V, in
\* signal-list order; a frame whose id matches no message yields no rows.
C24_MuxSelectivity ==
    (call.fn = "decodeEntry" /\ result.done) =>
        LET db == call.arg.db
            msg == call.arg.msg
            rows == result.value.decodedSignals
        IN  IF MessagesById(db, msg.id) = {} THEN rows = <<>>
            ELSE LET list == messageById(db, msg.id).signalList
                 IN  (\E i \in 1..Len(list) : list[i].muxIndicator = "M") =>
                        RowNames(rows) =
                            SelectedNames(list,
                                rawValue(list[FirstSelector(list)],
                                         msg.data, dataLength(msg)))

\* The spec's multiplex scenario: low nibble 2 shows Tmp2 and not Tmp1.
C24_Witness ==
    /\ call.fn = "decodeEntry"
    /\ result.done
    /\ call.arg.msg.id = 256
    /\ call.arg.msg.data[1] = 2
    /\ RowNames(result.value.decodedSignals) = <<"Mux", "Tmp2", "B">>


\* ------------------------------------------- channel slots and the engine
\* What the CAN Config dialog can put into one slot.
ConfigChoices ==
    {CANChannelUserConfig(en, path) :
        en \in BOOLEAN, path \in {"", "a.dbc", "b.dbc"}}

\* The lists the dialog hands to applyChannelConfigs: 1 to MAX_CHANNELS
\* entries.
ConfigLists == UNION {[1..n -> ConfigChoices] : n \in 1..MAX_CHANNELS}

InitConfigured ==
    /\ InitQuiet
    /\ InitAux

ApplyChannelConfigs ==
    \E configs \in ConfigLists :
        /\ CommitChannels(applyChannelConfigs(ChannelState, configs))
        /\ UNCHANGED <<traceVars, nextSeq, engineVars, codecVars, auxVars,
                       boundSlot, logVars, rxVars>>

PreloadChannelDbc ==
    \E ch \in 0..MAX_CHANNELS, filePath \in DbcFiles \cup {"missing.dbc"} :
        /\ CommitChannels(preloadChannelDbc(ChannelState, ch, filePath))
        /\ UNCHANGED <<traceVars, nextSeq, engineVars, codecVars, auxVars,
                       boundSlot, logVars, rxVars>>

\* connectChannels with its channel-slot part: the settings of the first
\* enabled slot and the re-merge just before the channel is opened.
ConnectConfigured ==
    \E libOk \in BOOLEAN :
        LET e == connectChannels(State, libOk)
            reached == connectReachesOpen(State, libOk)
        IN  /\ CommitEngine(Did("connect", e))
            /\ CommitChannels(IF reached THEN rebuildMergedDbc(ChannelState)
                              ELSE ChannelState)
            /\ boundSlot' = IF reached /\ e.connected
                            THEN firstEnabled(m_channelConfigs)
                            ELSE boundSlot
            /\ UNCHANGED <<codecVars, auxVars, logVars, rxVars>>

\* startMeasurement connects first when it is not connected.
StartConfigured ==
    \E libOk \in BOOLEAN :
        LET e == startMeasurement(State, libOk)
            reached == ~m_measuring /\ connectReachesOpen(State, libOk)
        IN  /\ CommitEngine(Did("start", e))
            /\ CommitChannels(IF reached THEN rebuildMergedDbc(ChannelState)
                              ELSE ChannelState)
            /\ boundSlot' = IF reached /\ e.connected
                            THEN firstEnabled(m_channelConfigs)
                            ELSE boundSlot
            /\ UNCHANGED <<codecVars, auxVars, logVars, rxVars>>

NextConfigured ==
    \/ ApplyChannelConfigs
    \/ PreloadChannelDbc
    \/ ConnectConfigured
    \/ StartConfigured
    \/ DisconnectChannels
    \/ StopMeasurement
    \/ DemoTick
    \/ FlushTick

SpecConfigured == InitConfigured /\ [][NextConfigured]_vars

\* The databases of the enabled slots, each parsed from the slot's
\* configured path, one after the other in slot order.
ExpectedMerged ==
    Concat([i \in Slots |->
               IF m_channelConfigs[i].enabled
               THEN parseFile(m_channelConfigs[i].dbcFilePath)
               ELSE <<>>])

\* C25: after any sequence of preload-channel-dbc, apply-channel-configs and
\* connect operations the merged decode database is the concatenation, in
\* slot order, of the databases of exactly the enabled channels, each the
\* database parsed from the channel's currently configured DBC path.
C25_MergedIsConcatenation == m_dbcDb = ExpectedMerged

\* C26: a disabled or unbound channel contributes no frames: whenever a
\* frame reaches the pending buffer, the open adapter channel was bound by
\* connect to a channel slot, and that slot is enabled; with no slot enabled
\* no sequence of connect and start delivers a frame.
C26_OnlyEnabledSlotsDeliver ==
    [][Len(m_pending') > Len(m_pending)
          => /\ boundSlot # 0
             /\ m_channelConfigs[boundSlot].enabled]_vars


\* ------------------------------------------ the logger across the sessions
MaxSessions == 4
MaxMessages == 3

\* The logger members and the marker file as one value.
LoggerState ==
    [marker |-> markerExists, installed |-> m_installed,
     header |-> headerReported, count |-> m_messageCount]

\* Logger::previousSessionCrashed: the marker file exists.
previousSessionCrashed(l) == l.marker

\* Logger::openLogFile: the session header, with a line on the previous
\* crash when the marker is there.
openLogFile(l) == [l EXCEPT !.header = previousSessionCrashed(l)]

\* Logger::createCrashMarker: the file is written (truncated when there).
createCrashMarker(l) == [l EXCEPT !.marker = TRUE]

\* Logger::removeCrashMarker
removeCrashMarker(l) == [l EXCEPT !.marker = FALSE]

\* Logger::install
install(l) ==
    IF l.installed THEN l
    ELSE [createCrashMarker(openLogFile(l)) EXCEPT !.installed = TRUE]

\* Logger::shutdown
shutdown(l) ==
    IF ~l.installed THEN l
    ELSE [removeCrashMarker(l) EXCEPT !.installed = FALSE]

\* Logger::messageHandler up to the test for a fatal message.
messageHandler(l, type) ==
    LET counted == [l EXCEPT !.count = @ + 1]
    IN  IF type = "fatal" THEN createCrashMarker(counted) ELSE counted

CommitLogger(l) ==
    /\ markerExists' = l.marker
    /\ m_installed' = l.installed
    /\ headerReported' = l.header
    /\ m_messageCount' = l.count

NotLogger ==
    UNCHANGED <<traceVars, nextSeq, engineVars, codecVars, auxVars,
                channelVars, rxVars>>

\* The process ends: the logger object and what the session reported go
\* with it, the marker file stays as it is.
EndOfProcess(l, how) ==
    /\ CommitLogger([l EXCEPT !.installed = FALSE, !.header = FALSE,
                              !.count = 0])
    /\ sessionPc' = "off"
    /\ sessionEnds' = Append(sessionEnds, how)
    /\ mainReported' = FALSE
    /\ UNCHANGED sessions
    /\ NotLogger

\* main, first statement: Logger::install.
SessionInstall ==
    /\ sessionPc = "off"
    /\ sessions < MaxSessions
    /\ CommitLogger(install(LoggerState))
    /\ sessionPc' = "installed"
    /\ sessions' = sessions + 1
    /\ UNCHANGED <<sessionEnds, mainReported>>
    /\ NotLogger

\* main, second statement: the check for a crash of the previous session,
\* logged as a warning.
SessionCheck ==
    /\ sessionPc = "installed"
    /\ LET crashed == previousSessionCrashed(LoggerState)
       IN  /\ mainReported' = crashed
           /\ CommitLogger(IF crashed
                           THEN messageHandler(LoggerState, "warning")
                           ELSE LoggerState)
    /\ sessionPc' = "running"
    /\ UNCHANGED <<sessions, sessionEnds>>
    /\ NotLogger

\* A message of the running application.
LogMessage ==
    \E type \in {"debug", "warning"} :
        /\ sessionPc = "running"
        /\ m_messageCount < MaxMessages
        /\ CommitLogger(messageHandler(LoggerState, type))
        /\ UNCHANGED <<sessionPc, sessions, sessionEnds, mainReported>>
        /\ NotLogger

\* A fatal message: the marker is written and the process aborts.
LogFatal ==
    /\ sessionPc = "running"
    /\ EndOfProcess(messageHandler(LoggerState, "fatal"), "fatal")

\* main returns from the event loop and calls Logger::shutdown.
SessionShutdown ==
    /\ sessionPc = "running"
    /\ EndOfProcess(shutdown(LoggerState), "shutdown")

\* The process dies (a crash, a kill, loss of power), or main returns -1
\* because the QML did not load: shutdown is not called.
SessionCrash ==
    /\ sessionPc \in {"installed", "running"}
    /\ EndOfProcess(LoggerState, "crash")

NextLogger ==
    \/ SessionInstall
    \/ SessionCheck
    \/ LogMessage
    \/ LogFatal
    \/ SessionShutdown
    \/ SessionCrash

SpecLogger == InitConfigured /\ [][NextLogger]_vars

PreviousEndedClean == sessionEnds[Len(sessionEnds)] = "shutdown"

\* C27: across consecutive sessions the check the application makes at
\* start reports an abnormal termination of the previous session if and
\* only if the previous session ended without a clean logger shutdown.
C27_CrashReportedIffUnclean ==
    (sessionPc = "running" /\ sessions >= 2)
        => (mainReported <=> ~PreviousEndedClean)


\* ------------------------------------- the receive thread of the Vector driver
\* The counters of what the thread did after the flag was cleared stop at
\* this value.
MaxAfterStop == 2

\* A loop that never looks at the flag.
rxLoopConditionAlways(running) == TRUE

\* while (m_asyncRunning.load())
rxLoopCondition(running) == running

NotRx == UNCHANGED <<codecVars, auxVars, channelVars, logVars>>

InitRx ==
    /\ InitApp
    /\ m_displayMode = "Append"
    /\ m_driver = "Vector"
    /\ hwPresent
    /\ codecStep = "idle"
    /\ exportFrames = <<>>
    /\ traceFile = NoFile
    /\ importResult = NoResult
    /\ InitAux

\* initialize and openChannel called on the driver.
OpenDriverChannel ==
    \E libOk \in BOOLEAN :
        /\ stopPc = "idle"
        /\ ~m_portHandle
        /\ LET i == initialize(State, libOk)
           IN  CommitEngine(IF i.ok THEN openChannel(i.e).e ELSE i.e)
        /\ UNCHANGED rxVars
        /\ NotRx

\* closeChannel called on the driver once the thread has been stopped.
CloseDriverChannel ==
    /\ stopPc = "idle"
    /\ ~m_asyncRunning
    /\ m_portHandle
    /\ CommitEngine(closeChannel(State))
    /\ UNCHANGED rxVars
    /\ NotRx

\* VectorCANDriver::startAsyncReceive: the flag is set and the thread made.
StartAsyncReceive ==
    /\ stopPc = "idle"
    /\ ~m_asyncRunning
    /\ LET e == startAsyncReceive(State)
       IN  /\ CommitEngine(e)
           /\ m_rxThread' = IF e.async THEN "top" ELSE m_rxThread
    /\ UNCHANGED <<stopPc, waitsAfterStop, publishedAfterStop>>
    /\ NotRx

\* VectorCANDriver::stopAsyncReceive up to m_rxThread->wait: the flag is
\* cleared.
StopAsyncReceive ==
    /\ stopPc = "idle"
    /\ m_asyncRunning
    /\ CommitEngine(stopAsyncReceive(State))
    /\ stopPc' = "waiting"
    /\ waitsAfterStop' = 0
    /\ publishedAfterStop' = 0
    /\ UNCHANGED m_rxThread
    /\ NotRx

\* m_rxThread->wait returns because the thread has ended; the thread object
\* is deleted.
StopAsyncJoin ==
    /\ stopPc = "waiting"
    /\ m_rxThread = "exited"
    /\ m_rxThread' = "none"
    /\ stopPc' = "idle"
    /\ UNCHANGED <<traceVars, nextSeq, engineVars, waitsAfterStop,
                   publishedAfterStop>>
    /\ NotRx

\* The thread tests the loop condition.
RxLoopTop ==
    /\ m_rxThread = "top"
    /\ m_rxThread' = IF rxLoopCondition(m_asyncRunning) THEN "receive"
                     ELSE "exited"
    /\ UNCHANGED <<traceVars, nextSeq, engineVars, stopPc, waitsAfterStop,
                   publishedAfterStop>>
    /\ NotRx

\* receive(msg, 100) returns: with a frame, with an error frame or a
\* transmit confirmation, or empty-handed after the 100 ms.
RxReceive ==
    \E outcome \in {"frame", "notData", "timeout"} :
        /\ m_rxThread = "receive"
        /\ outcome = "frame"
              => /\ m_portHandle
                 /\ nextSeq < MaxPublish
                 /\ Len(eventQueue) < MaxQueue
        /\ m_rxThread' = IF outcome = "frame" THEN "emit" ELSE "top"
        /\ nextSeq' = IF outcome = "frame" THEN nextSeq + 1 ELSE nextSeq
        /\ waitsAfterStop' = IF m_asyncRunning THEN waitsAfterStop
                             ELSE Min(waitsAfterStop + 1, MaxAfterStop)
        /\ UNCHANGED <<traceVars, engineVars, stopPc, publishedAfterStop>>
        /\ NotRx

\* emit messageReceived(msg): the frame is queued for the engine thread.
RxEmit ==
    /\ m_rxThread = "emit"
    /\ CommitEngine(Post(State, Event("frame", BusFrame(nextSeq), 0, FALSE,
                                      0, FALSE)))
    /\ m_rxThread' = "top"
    /\ publishedAfterStop' = IF m_asyncRunning THEN publishedAfterStop
                             ELSE Min(publishedAfterStop + 1, MaxAfterStop)
    /\ UNCHANGED <<stopPc, waitsAfterStop>>
    /\ NotRx

\* The engine thread takes an event from its queue; it cannot while it is
\* inside stopAsyncReceive.
EngineDispatch ==
    /\ stopPc = "idle"
    /\ DispatchEvent

NextRx ==
    \/ OpenDriverChannel
    \/ CloseDriverChannel
    \/ StartAsyncReceive
    \/ StopAsyncReceive
    \/ StopAsyncJoin
    \/ RxLoopTop
    \/ RxReceive
    \/ RxEmit
    \/ EngineDispatch

\* The receive thread is scheduled, and its wait is bounded by the 100 ms
\* timeout: each of its steps is taken once it is possible.
SpecRx ==
    /\ InitRx
    /\ [][NextRx]_vars
    /\ WF_vars(RxLoopTop)
    /\ WF_vars(RxReceive)
    /\ WF_vars(RxEmit)

InitializeRunningOn(drv) ==
    \E t \in ThreadIds :
        /\ initThreads[t].pc = "running"
        /\ initThreads[t].drv = drv

\* The engine calls transmit (sendFrame while connected) or closeChannel
\* (disconnectChannels while connected) on its driver.
DriverCall ==
    /\ m_connected
    /\ SendFrame \/ DisconnectChannels

\* C29: the engine never invokes the driver's transmit or close_channel
\* while an init worker, started by refresh-channels or by the startup
\* sequence, is still running initialize on that driver.
C29_NoDriverCallDuringInit ==
    [][DriverCall => ~InitializeRunningOn(m_driver)]_vars


\* ------------------------------------------------ switching the display mode
\* The fingerprints of frames in the order of their first occurrence.
RECURSIVE FirstOccurrences(_, _)
FirstOccurrences(frames, seen) ==
    IF frames = <<>> THEN <<>>
    ELSE LET fp == Fingerprint(Head(frames))
         IN  IF fp \in seen THEN FirstOccurrences(Tail(frames), seen)
             ELSE <<fp>> \o FirstOccurrences(Tail(frames), seen \cup {fp})

\* The last frame of frames with fingerprint fp.
LastOccurrence(frames, fp) ==
    LET at == {i \in 1..Len(frames) : Fingerprint(frames[i]) = fp}
    IN  frames[CHOOSE i \in at : \A j \in at : j <= i]

\* One row per fingerprint, in the order of first occurrence, with the
\* content of the last occurrence.
Collapsed(frames) ==
    LET fps == FirstOccurrences(frames, {})
    IN  [k \in 1..Len(fps) |-> LastOccurrence(frames, fps[k])]

\* C31: switching a non-empty model from Append to In-place leaves exactly
\* one row per distinct fingerprint, in the order of each fingerprint's
\* first occurrence and with the content of its last occurrence; switching
\* from In-place to Append leaves the rows unchanged.
C31_ModeSwitch ==
    [][/\ (m_displayMode = "Append" /\ m_displayMode' = "InPlace"
              /\ m_frames # <<>>)
          => m_frames' = Collapsed(m_frames)
       /\ (m_displayMode = "InPlace" /\ m_displayMode' = "Append")
          => m_frames' = m_frames]_vars

\* The switch to In-place has just collapsed three rows into two: the first
\* row holds a frame that arrived after the frame of the second row.
C31_Witness ==
    /\ m_displayMode = "InPlace"
    /\ notif.resets = 1
    /\ Len(m_frames) = 2
    /\ m_frames[1].timestamp > m_frames[2].timestamp


\* ------------------------------------------- importing during a measurement
MaxFileFrames == 2

\* Trace files that load without error, by the frames in them.
TraceFiles ==
    { [i \in 1..n |-> BusFrame(ImportBase + i - 1)] : n \in 1..MaxFileFrames }

ImportTraceFile ==
    \E frames \in TraceFiles, append \in BOOLEAN :
        Commit(Did("import", importTraceLog(State, "ok", frames, append).e))

NextOffline ==
    \/ ConnectChannels
    \/ StartMeasurement
    \/ StopMeasurement
    \/ PauseMeasurement
    \/ SetInPlaceDisplayMode
    \/ DemoTick
    \/ FlushTick
    \/ ImportTraceFile

SpecOffline == InitConfigured /\ [][NextOffline]_vars

\* C32: a successful import stops a running measurement and empties the
\* pending buffer; in Append mode and within MAX_ROWS it leaves the model
\* holding only the imported frames in file order when append is false, and
\* the previous rows followed by the imported frames in file order when
\* append is true.
C32_ImportReplacesOrAppends ==
    \A frames \in TraceFiles, append \in BOOLEAN :
        LET r == importTraceLog(State, "ok", frames, append)
            kept == IF append THEN m_frames ELSE <<>>
        IN  /\ r.ok
            /\ ~r.e.measuring
            /\ r.e.pending = <<>>
            /\ (m_displayMode = "Append"
                   /\ Len(kept) + Len(frames) <= MAX_ROWS)
                  => r.e.tm.frames = kept \o buildEntries(frames)

\* A file of two frames has been appended after a row received from the
\* bus, and the engine, still connected, is no longer measuring.
C32_Witness ==
    /\ m_connected
    /\ ~m_measuring
    /\ m_pending = <<>>
    /\ Len(m_frames) = 3
    /\ m_frames[1].timestamp < ImportBase
    /\ m_frames[2] = buildEntry(BusFrame(ImportBase))
    /\ m_frames[3] = buildEntry(BusFrame(ImportBase + 1))


\* ------------------------------------------------ the pending buffer
\* C36: whenever the engine is not measuring the pending buffer is empty,
\* under any interleaving of frame deliveries with connect, disconnect,
\* start, stop, pause, import and health ticks.
C36_IdleMeansNoPending == ~m_measuring => m_pending = <<>>

\* A measurement has just been stopped in a second in which frames had been
\* accepted, none of which had been committed to the model.
C36_Witness ==
    /\ last.op = "stop"
    /\ ~m_measuring
    /\ m_framesSinceLastSec > 0
    /\ m_frames = <<>>

\* The elements of a sequence.
Range(seq) == {seq[i] : i \in 1..Len(seq)}

\* C39: every frame accepted into the pending buffer while measuring is
\* eventually committed to the model, also the frames accepted between the
\* last flush tick and a following stop or disconnect: a frame leaves the
\* pending buffer only as a row of the model.
C39_PendingIsCommitted ==
    [][\A i \in 1..Len(m_pending) :
          \/ m_pending[i] \in Range(m_pending')
          \/ buildEntry(m_pending[i]) \in Range(m_frames')]_vars

\* ------------------------------------------------ connected means open
\* C37: whenever the connected flag is true the engine's current driver has
\* an open channel, also after refresh-channels was invoked while connected
\* and its watchdog has replaced the driver with the simulator.
C37_ConnectedMeansOpen == m_connected => isOpen(State)


\* ------------------------------------------------ the start-up sequence alone
\* The start-up sequence and what it sets going, with no user operation.
NextInit ==
    \/ StartInitSequence
    \/ DbcWorkerRun
    \/ InitThreadPost
    \/ InitThreadExit
    \/ WatchdogFire
    \/ DispatchEvent

\* The workers are scheduled and return, the engine thread's event loop
\* runs, and the watchdog timer fires while its worker is still running.
SpecInit ==
    /\ Init
    /\ [][NextInit]_vars
    /\ WF_vars(DbcWorkerRun)
    /\ WF_vars(InitThreadPost)
    /\ WF_vars(InitThreadExit)
    /\ WF_vars(WatchdogFire)
    /\ WF_vars(DispatchEvent)

\* C35: after startInitSequence has been invoked the initialization-complete
\* observable eventually becomes true, for every outcome of the driver
\* initialization: success, a returned failure, or a stall longer than the
\* watchdog.
C35_InitCompletes == (started.dbc > 0) ~> m_initComplete


\* ------------------------------------------------ the automatic start
\* C38: the automatic start scheduled 3 s after initialization completes
\* only moves the engine toward measuring: when it fires while a
\* measurement is running, the measurement keeps running and its pending
\* frames are kept.
C38_AutoStartOnlyStarts ==
    [][(autoStartArmed /\ ~autoStartArmed' /\ m_measuring)
          => (m_measuring' /\ m_pending' = m_pending)]_vars

\* ------------------------------------------------ abandoned init workers
\* The engine thread handles the QThread::finished signal of a worker the
\* watchdog has abandoned.
AbandonedWorkerEnds ==
    /\ eventQueue # <<>>
    /\ Head(eventQueue).type = "finished"
    /\ initThreads[Head(eventQueue).t].cancelled
    /\ eventQueue' = Tail(eventQueue)

\* C40: after the watchdog has abandoned a stalled init worker, the later
\* termination of that worker changes no engine state: it neither clears
\* nor schedules for deletion the handle of a newer init worker started by
\* a subsequent refresh-channels.
C40_AbandonedWorkerIsInert ==
    [][AbandonedWorkerEnds
          => /\ m_initThread' = m_initThread
             /\ \A t \in ThreadIds \ {Head(eventQueue).t} :
                    initThreads'[t] = initThreads[t]]_vars


\* The three ways connectChannels gives up on a closed engine: the driver
\* does not initialize, the channel list is empty after the simulator's
\* refresh, or openChannel fails.
ConnectFails(e, libOk) ==
    LET i == initialize(e, libOk)
        channels == IF i.e.channelInfos = 0 /\ i.e.driver = "Demo"
                    THEN detectChannels(i.e, "Demo")
                    ELSE i.e.channelInfos
    IN  \/ ~i.ok
        \/ channels = 0
        \/ ~openChannel(i.e).ok

\* C34: in every reachable closed state, a connect in which the driver
\* does not initialize, no channel is available or openChannel fails leaves
\* the engine not connected, not measuring, not paused and with no receive
\* thread running, and a start from that state leaves it not measuring with
\* the flush and rate timers stopped.
C34_FailedConnectStaysClosed ==
    \A libOk \in BOOLEAN :
        (~m_connected /\ ConnectFails(State, libOk)) =>
            LET r == connectChannels(State, libOk)
                s == startMeasurement(State, libOk)
            IN  /\ ~r.connected
                /\ ~r.measuring
                /\ ~r.paused
                /\ ~r.async
                /\ ~m_measuring =>
                       /\ ~s.connected
                       /\ ~s.measuring
                       /\ ~s.flushTimer
                       /\ ~s.rateTimer

\* A connect or a start has just failed on the hardware driver with its
\* library loaded and a channel listed: openChannel failed.
C34_Witness ==
    /\ last.op = "connectFailed"
    /\ m_driver = "Vector"
    /\ m_driverOpen
    /\ m_channelInfos > 0
    /\ ~m_connected
    /\ ~m_measuring


\* ------------------------------------------------------ TraceFilterProxy
\* The most signal rows under a frame row.
MaxSignalRows == 1

\* The display strings of frame rows as buildEntry formats them, and the
\* number of signal rows under each: only a frame the database names has
\* signal rows.
FilterRows ==
    {r \in [nameStr : {<<>>, <<"E", "n", "g">>},
            idStr : {<<"0", "C", "4", "h">>},
            chnStr : {<<"1">>, <<"2">>},
            eventTypeStr : {<<"C", "A", "N">>},
            dirStr : {<<"R", "x">>, <<"T", "x">>},
            dataStr : {<<"D", "E">>},
            decodedSignals : 0..MaxSignalRows] :
        r.nameStr = <<>> => r.decodedSignals = 0}

FilterTexts ==
    {<<>>, <<"e">>, <<"E", "N", "G">>, <<"r", "x">>, <<"4", "H">>,
     <<"z", "z">>, <<"2">>, <<"0", "c", "4", "h", "h">>}

\* QString::contains(sub, Qt::CaseInsensitive).
containsCaseInsensitive(text, sub) ==
    \E i \in 0..(Len(text) - Len(sub)) :
        SubSeq(toLower(text), i + 1, i + Len(sub)) = toLower(sub)

\* TraceModel::data(index(row, col), Qt::DisplayRole) of a frame row.
displayData(row, col) ==
    CASE col = 1 -> row.nameStr
      [] col = 2 -> row.idStr
      [] col = 3 -> row.chnStr
      [] col = 4 -> row.eventTypeStr
      [] col = 5 -> row.dirStr
      [] col = 7 -> row.dataStr
      [] OTHER -> <<>>

searchCols == <<1, 2, 3, 4, 5, 7>>

\* TraceFilterProxy::filterAcceptsRow; parentValid: sourceParent.isValid(),
\* the row is a signal row.
filterAcceptsRow(m_filterText, row, parentValid) ==
    IF m_filterText = <<>> THEN TRUE
    ELSE IF parentValid THEN TRUE
    ELSE \E k \in 1..Len(searchCols) :
             containsCaseInsensitive(displayData(row, searchCols[k]),
                                     m_filterText)

\* Set by the constructor: setRecursiveFilteringEnabled(true).
recursiveFilteringEnabled == TRUE

\* The rows the proxy shows for a frame row of the source model: with
\* recursive filtering a row is kept when filterAcceptsRow accepts it or
\* accepts one of the rows under it, and rows under a row that is not kept
\* are not shown.
proxyRows(m_filterText, row) ==
    LET children == {c \in 1..row.decodedSignals :
                        filterAcceptsRow(m_filterText, row, TRUE)}
        frame == \/ filterAcceptsRow(m_filterText, row, FALSE)
                 \/ recursiveFilteringEnabled /\ children # {}
    IN  [frame |-> frame,
         signalRows |-> IF frame THEN Cardinality(children) ELSE 0]

InitFilter ==
    /\ InitQuiet
    /\ call \in [fn : {"filter"},
                 arg : [row : FilterRows, m_filterText : FilterTexts]]
    /\ result = NoValue
    /\ recipe = NoRecipe
    /\ InitOther

InvalidateFilter ==
    /\ call.fn = "filter"
    /\ ~result.done
    /\ result' = Returned(proxyRows(call.arg.m_filterText, call.arg.row))
    /\ UNCHANGED <<traceVars, nextSeq, engineVars, codecVars, call, recipe,
                   otherVars>>

NextFilter == InvalidateFilter

SpecFilter == InitFilter /\ [][NextFilter]_vars

\* One of the Name, ID, Channel, Event-type, Direction and Data texts of the
\* row contains the text, letter case ignored.
ColumnContains(row, text) ==
    \/ containsCaseInsensitive(row.nameStr, text)
    \/ containsCaseInsensitive(row.idStr, text)
    \/ containsCaseInsensitive(row.chnStr, text)
    \/ containsCaseInsensitive(row.eventTypeStr, text)
    \/ containsCaseInsensitive(row.dirStr, text)
    \/ containsCaseInsensitive(row.dataStr, text)

\* C33: once the proxy has filtered a frame row, the row is shown exactly
\* when the filter text is empty or one of its six searched column texts
\* contains the filter text case-insensitively, with or without signal rows
\* under it, and signal rows are shown only under a shown frame row.
C33_FrameShownIffColumnMatches ==
    (call.fn = "filter" /\ result.done) =>
        /\ result.value.frame =
               \/ call.arg.m_filterText = <<>>
               \/ ColumnContains(call.arg.row, call.arg.m_filterText)
        /\ result.value.signalRows > 0 => result.value.frame

====
